---- MODULE Spec2Model ----
(***************************************************************************)
(* TalkPrep AI (holynakamoto/conftalk): the workflow coordinator           *)
(* TalkPrepSkill and the builders and validators it calls.                 *)
(*                                                                         *)
(* Representation of TypeScript values:                                    *)
(*   - null (this.state before initialize) is the record `null`;           *)
(*   - an absent optional object (state.outline, slide.code, ...) is the   *)
(*     record `undefined`; an absent optional string is NoString; an       *)
(*     absent optional number or date is the empty sequence <<>>;          *)
(*   - arrays are sequences, objects are records with the source's field   *)
(*     names, strings are strings (built with \o and ToString where the    *)
(*     source interpolates);                                               *)
(*   - the free text of a script (introduction, section content,           *)
(*     conclusion) is a record of the three measures validateContent       *)
(*     reads from it: its length in characters, its number of              *)
(*     whitespace-separated words and its number of jargon-term matches;   *)
(*   - Date.now() is an input of the call, drawn from Times.               *)
(***************************************************************************)
EXTENDS Integers, Sequences, FiniteSets, TLC

VARIABLES
  state,      \* TalkPrepSkill.state : WorkflowState | null
  lastCall,   \* the last public method called, what it threw, what it returned
  calls       \* the number of public methods called on this instance so far

vars == <<state, lastCall, calls>>

null == [null |-> TRUE]
undefined == [undefined |-> TRUE]
NoString == "<undefined>"

\* JavaScript truthiness of an optional string (!s, s || other)
Falsy(s) == s = NoString \/ s = ""

\* a || b on optional strings
OrElse(a, b) == IF Falsy(a) THEN b ELSE a

(***************************************************************************)
(* Bounds of the model                                                     *)
(***************************************************************************)
\* the number of calls made on one TalkPrepSkill instance
MaxCalls == 7
\* state.rehearsals grows without bound; startRehearsal is cut off here
MaxRehearsals == 1
\* Date.now() values a call can observe
MaxTime == 1
Times == 1..MaxTime

(***************************************************************************)
(* Generic sequence helpers (Array.prototype.map/filter/reduce/slice)      *)
(***************************************************************************)

RECURSIVE Flatten(_)
Flatten(ss) == IF ss = <<>> THEN <<>> ELSE Head(ss) \o Flatten(Tail(ss))

RECURSIVE SumSeq(_)
SumSeq(s) == IF s = <<>> THEN 0 ELSE Head(s) + SumSeq(Tail(s))

\* s.slice(from, to) with 0-based, end-exclusive indices
Slice(s, from, to) ==
  LET hi == IF to > Len(s) THEN Len(s) ELSE to
  IN  IF from >= hi THEN <<>> ELSE SubSeq(s, from + 1, hi)

\* s.includes(x)
Includes(s, x) == \E i \in 1..Len(s) : s[i] = x

\* parts.join(sep)
RECURSIVE Join(_, _)
Join(parts, sep) ==
  IF parts = <<>> THEN ""
  ELSE IF Len(parts) = 1 THEN parts[1]
  ELSE parts[1] \o sep \o Join(Tail(parts), sep)

Min(a, b) == IF a < b THEN a ELSE b

\* Math.ceil(a / b) for naturals a, b > 0
CeilDiv(a, b) == (a + b - 1) \div b

(***************************************************************************)
(* Enumerations (types/index.ts, schemas/validation.ts)                    *)
(***************************************************************************)
AudienceType == {"technical", "academic", "business", "general"}
ExpertiseLevel == {"beginner", "intermediate", "expert"}
TalkType == {"keynote", "technical_deep_dive", "workshop", "lightning_talk",
             "panel_discussion"}
ToneType == {"formal", "conversational", "inspirational", "educational"}
WorkflowStep == <<"ideation", "outline", "content", "export", "rehearsal">>

(***************************************************************************)
(* Talk templates (templates/index.ts)                                     *)
(***************************************************************************)
\* templates/index.ts lines 31-123
keynoteTemplate ==
  [ name |-> "Keynote",
    defaultDuration |-> 45,
    structure |-> <<
      [ title |-> "Opening Hook", type |-> "intro", durationPercent |-> 10,
        keyPointPrompts |-> << "Start with a story, question, or surprising fact",
                             "Establish your credibility briefly",
                             "Preview the journey you'll take them on" >>,
        notes |-> "Make it personal. Connect emotionally. Create anticipation." ],
      [ title |-> "The Problem / Opportunity", type |-> "main", durationPercent |-> 15,
        keyPointPrompts |-> << "Describe the current state of the industry/world",
                             "Identify the challenge or opportunity",
                             "Make the audience feel the urgency" >>,
        notes |-> "Paint a vivid picture. Use data to support your claims." ],
      [ title |-> "The Vision", type |-> "main", durationPercent |-> 25,
        keyPointPrompts |-> << "Describe what's possible",
                             "Share examples of early success",
                             "Connect vision to audience's aspirations" >>,
        notes |-> "Be bold but credible. Inspire action." ],
      [ title |-> "The Path Forward", type |-> "main", durationPercent |-> 20,
        keyPointPrompts |-> << "Outline concrete steps",
                             "Address potential obstacles",
                             "Share resources and support available" >>,
        notes |-> "Make it actionable. Don't just inspire - enable." ],
      [ title |-> "Call to Action", type |-> "conclusion", durationPercent |-> 10,
        keyPointPrompts |-> << "Summarize the key message",
                             "Issue a clear call to action",
                             "End with a memorable statement" >>,
        notes |-> "Circle back to your opening. Leave them energized." ],
      [ title |-> "Q&A", type |-> "qa", durationPercent |-> 20,
        keyPointPrompts |-> << "Prepare for skeptical questions",
                             "Have examples ready",
                             "Bridge answers to key messages" >>,
        notes |-> "Stay composed. Every question is an opportunity." ]
    >> ]

\* templates/index.ts lines 128-220
technicalDeepDiveTemplate ==
  [ name |-> "Technical Deep Dive",
    defaultDuration |-> 45,
    structure |-> <<
      [ title |-> "Problem Context", type |-> "intro", durationPercent |-> 10,
        keyPointPrompts |-> << "Define the technical problem clearly",
                             "Explain why existing solutions fall short",
                             "Preview your approach" >>,
        notes |-> "Establish technical context quickly. Your audience knows the basics." ],
      [ title |-> "Background & Prior Art", type |-> "main", durationPercent |-> 15,
        keyPointPrompts |-> << "Review relevant prior work",
                             "Explain key concepts needed",
                             "Acknowledge trade-offs of existing approaches" >>,
        notes |-> "Be fair to alternatives. Show you've done your homework." ],
      [ title |-> "Solution Architecture", type |-> "main", durationPercent |-> 25,
        keyPointPrompts |-> << "Present your approach at a high level",
                             "Explain key design decisions",
                             "Discuss trade-offs you made" >>,
        notes |-> "Use diagrams. Explain the \"why\" not just the \"what\"." ],
      [ title |-> "Implementation Details", type |-> "main", durationPercent |-> 20,
        keyPointPrompts |-> << "Show key code or configurations",
                             "Highlight interesting challenges",
                             "Demonstrate with working examples" >>,
        notes |-> "Don't show every line. Focus on insights." ],
      [ title |-> "Results & Lessons", type |-> "conclusion", durationPercent |-> 10,
        keyPointPrompts |-> << "Share benchmarks or outcomes",
                             "Discuss what you learned",
                             "Suggest next steps or future work" >>,
        notes |-> "Be honest about limitations. Share real numbers." ],
      [ title |-> "Q&A", type |-> "qa", durationPercent |-> 20,
        keyPointPrompts |-> << "Prepare for edge case questions",
                             "Know your performance numbers",
                             "Be ready to discuss alternatives" >>,
        notes |-> "It's OK to say \"I don't know, let me check.\"" ]
    >> ]

\* templates/index.ts lines 225-328
workshopTemplate ==
  [ name |-> "Workshop",
    defaultDuration |-> 90,
    structure |-> <<
      [ title |-> "Introduction & Setup", type |-> "intro", durationPercent |-> 10,
        keyPointPrompts |-> << "Welcome and introductions",
                             "Learning objectives",
                             "Verify everyone's setup works" >>,
        notes |-> "Don't skip setup verification - it saves time later." ],
      [ title |-> "Foundation Concepts", type |-> "main", durationPercent |-> 15,
        keyPointPrompts |-> << "Core concepts needed for exercises",
                             "Quick demonstration",
                             "Check for understanding" >>,
        notes |-> "Keep theory minimal. Get to hands-on quickly." ],
      [ title |-> "Guided Exercise 1", type |-> "main", durationPercent |-> 20,
        keyPointPrompts |-> << "Step-by-step walkthrough",
                             "Common pitfalls to avoid",
                             "Check-in point" >>,
        notes |-> "Walk around the room. Help those who are stuck." ],
      [ title |-> "Guided Exercise 2", type |-> "main", durationPercent |-> 20,
        keyPointPrompts |-> << "Build on previous exercise",
                             "Introduce new concept",
                             "Allow exploration time" >>,
        notes |-> "Have extension tasks for fast finishers." ],
      [ title |-> "Independent Practice", type |-> "main", durationPercent |-> 15,
        keyPointPrompts |-> << "Challenge exercise",
                             "Minimal guidance",
                             "Encourage peer help" >>,
        notes |-> "This is where real learning happens. Be available." ],
      [ title |-> "Wrap-up & Next Steps", type |-> "conclusion", durationPercent |-> 10,
        keyPointPrompts |-> << "Summarize what was learned",
                             "Provide resources for continued learning",
                             "Collect feedback" >>,
        notes |-> "Leave them with a clear path forward." ],
      [ title |-> "Q&A", type |-> "qa", durationPercent |-> 10,
        keyPointPrompts |-> << "Address remaining questions",
                             "Troubleshoot lingering issues",
                             "Share contact info for follow-up" >>,
        notes |-> "Be available after for individual questions." ]
    >> ]

\* the lightning talk with a hook of a quarter of the time
lightningTalkTemplate_hookOf25 ==
  [ name |-> "Lightning Talk",
    defaultDuration |-> 5,
    structure |-> <<
      [ title |-> "Hook", type |-> "intro", durationPercent |-> 25,
        keyPointPrompts |-> << "Grab attention immediately",
                             "State the one thing you're going to teach" >>,
        notes |-> "No time for pleasantries. Start strong." ],
      [ title |-> "The Insight", type |-> "main", durationPercent |-> 50,
        keyPointPrompts |-> << "Explain your key point clearly",
                             "Give one concrete example",
                             "Make it memorable" >>,
        notes |-> "One point only. Go deep, not wide." ],
      [ title |-> "Takeaway", type |-> "conclusion", durationPercent |-> 30,
        keyPointPrompts |-> << "Reinforce the key message",
                             "Give a clear call to action",
                             "End with impact" >>,
        notes |-> "Leave them wanting more. Point to resources." ]
    >> ]

\* templates/index.ts lines 333-391
lightningTalkTemplate ==
  [ name |-> "Lightning Talk",
    defaultDuration |-> 5,
    structure |-> <<
      [ title |-> "Hook", type |-> "intro", durationPercent |-> 20,
        keyPointPrompts |-> << "Grab attention immediately",
                             "State the one thing you're going to teach" >>,
        notes |-> "No time for pleasantries. Start strong." ],
      [ title |-> "The Insight", type |-> "main", durationPercent |-> 50,
        keyPointPrompts |-> << "Explain your key point clearly",
                             "Give one concrete example",
                             "Make it memorable" >>,
        notes |-> "One point only. Go deep, not wide." ],
      [ title |-> "Takeaway", type |-> "conclusion", durationPercent |-> 30,
        keyPointPrompts |-> << "Reinforce the key message",
                             "Give a clear call to action",
                             "End with impact" >>,
        notes |-> "Leave them wanting more. Point to resources." ]
    >> ]

\* templates/index.ts lines 396-477
panelDiscussionTemplate ==
  [ name |-> "Panel Discussion",
    defaultDuration |-> 45,
    structure |-> <<
      [ title |-> "Introductions", type |-> "intro", durationPercent |-> 10,
        keyPointPrompts |-> << "Brief self-introduction",
                             "Your key perspective on the topic",
                             "One thing you hope to discuss" >>,
        notes |-> "Be memorable but brief. Others need time too." ],
      [ title |-> "Opening Positions", type |-> "main", durationPercent |-> 20,
        keyPointPrompts |-> << "State your main position clearly",
                             "Provide supporting evidence",
                             "Acknowledge complexity" >>,
        notes |-> "Take a clear stance. It makes for better discussion." ],
      [ title |-> "Discussion", type |-> "main", durationPercent |-> 30,
        keyPointPrompts |-> << "Build on others' points",
                             "Offer alternative perspectives",
                             "Share relevant examples" >>,
        notes |-> "Listen actively. Engage, don't just wait to talk." ],
      [ title |-> "Audience Q&A", type |-> "qa", durationPercent |-> 30,
        keyPointPrompts |-> << "Answer directly, then add nuance",
                             "Invite other panelists to respond",
                             "Connect to earlier discussion" >>,
        notes |-> "Keep answers focused. Leave room for others." ],
      [ title |-> "Closing Thoughts", type |-> "conclusion", durationPercent |-> 10,
        keyPointPrompts |-> << "One key takeaway",
                             "What you hope the audience remembers",
                             "Call to continued conversation" >>,
        notes |-> "Be concise. Don't repeat what others said." ]
    >> ]
\* templates/index.ts getTemplate: total over the five talk types
getTemplate(talkType) ==
  CASE talkType = "keynote" -> keynoteTemplate
    [] talkType = "technical_deep_dive" -> technicalDeepDiveTemplate
    [] talkType = "workshop" -> workshopTemplate
    [] talkType = "lightning_talk" -> lightningTalkTemplate
    [] talkType = "panel_discussion" -> panelDiscussionTemplate

\* Math.floor in the place of Math.round
RoundPercent_truncating(percent, duration) == (percent * duration) \div 100

\* Math.round((percent / 100) * duration) on the percents of the templates
\* and integer durations: the double product rounds as the exact one does
RoundPercent(percent, duration) == (percent * duration + 50) \div 100

\* templates/index.ts generateOutlineFromTemplate
generateOutlineFromTemplate(template, topic, duration) ==
  [ title |-> topic,
    subtitle |-> NoString,
    totalDuration |-> duration,
    sections |->
      [ i \in 1..Len(template.structure) |->
          [ id |-> "section-" \o ToString(i - 1),
            title |-> template.structure[i].title,
            duration |-> RoundPercent(template.structure[i].durationPercent, duration),
            order |-> i - 1,
            type |-> template.structure[i].type,
            keyPoints |-> template.structure[i].keyPointPrompts,
            notes |-> template.structure[i].notes ] ],
    learningObjectives |-> <<>>,
    callToAction |-> NoString ]

(***************************************************************************)
(* Configuration validation (schemas/validation.ts TalkConfigSchema)       *)
(***************************************************************************)
TopicMinLength == 3
TopicMaxLength == 200
DurationMin == 5
DurationMax == 120
DefaultDuration == 30
ConferenceContextMaxLength == 500
AdditionalNotesMaxLength == 1000

\* An input object is a record holding any subset of the configuration's
\* fields; strings keep their type, enum fields hold any string, and a
\* number is written Number(whole, tenths): Number(7, 5) is 7.5.
Has(input, field) == field \in DOMAIN input

Number(whole, tenths) == [ whole |-> whole, tenths |-> tenths ]

\* a duration schema whose int() check was left out
DurationIssues_withoutInt(input) ==
  IF ~Has(input, "duration") THEN <<>>
  ELSE (IF input.duration.whole < DurationMin
        THEN <<"Duration must be at least 5 minutes">> ELSE <<>>)
       \o (IF input.duration.whole > DurationMax
              \/ (input.duration.whole = DurationMax /\ input.duration.tenths > 0)
           THEN <<"Duration must be at most 120 minutes">> ELSE <<>>)

\* z.number().int().min(5, ...).max(120, ...).default(30): zod runs every
\* check of a number and reports each one that fails
DurationIssues(input) ==
  IF ~Has(input, "duration") THEN <<>>
  ELSE (IF input.duration.tenths # 0
        THEN <<"Expected integer, received float">> ELSE <<>>)
       \o (IF input.duration.whole < DurationMin
           THEN <<"Duration must be at least 5 minutes">> ELSE <<>>)
       \o (IF input.duration.whole > DurationMax
              \/ (input.duration.whole = DurationMax /\ input.duration.tenths > 0)
           THEN <<"Duration must be at most 120 minutes">> ELSE <<>>)

\* The issues zod reports, in the order of the schema's keys.  The texts of
\* the custom messages are the schema's; "Required" and "Invalid enum value"
\* stand for zod's built-in messages.
TalkConfigIssues(input) ==
  (IF ~Has(input, "topic") THEN <<"Required">>
   ELSE IF Len(input.topic) < TopicMinLength
        THEN <<"Topic must be at least 3 characters">>
   ELSE IF Len(input.topic) > TopicMaxLength
        THEN <<"Topic must be less than 200 characters">>
   ELSE <<>>)
  \o (IF Has(input, "audience") /\ input.audience \notin AudienceType
      THEN <<"Invalid enum value">> ELSE <<>>)
  \o DurationIssues(input)
  \o (IF Has(input, "expertiseLevel") /\ input.expertiseLevel \notin ExpertiseLevel
      THEN <<"Invalid enum value">> ELSE <<>>)
  \o (IF Has(input, "talkType") /\ input.talkType \notin TalkType
      THEN <<"Invalid enum value">> ELSE <<>>)
  \o (IF Has(input, "tone") /\ input.tone \notin ToneType
      THEN <<"Invalid enum value">> ELSE <<>>)
  \o (IF Has(input, "conferenceContext")
         /\ Len(input.conferenceContext) > ConferenceContextMaxLength
      THEN <<"String must contain at most 500 character(s)">> ELSE <<>>)
  \o (IF Has(input, "additionalNotes")
         /\ Len(input.additionalNotes) > AdditionalNotesMaxLength
      THEN <<"String must contain at most 1000 character(s)">> ELSE <<>>)

\* a schema whose defaults replace the value that was supplied
Default_ignoringInput(input, field, value) == value

\* .default(value) and .optional(): the supplied value, else the default
Default(input, field, value) ==
  IF Has(input, field) THEN input[field] ELSE value

\* The parsed configuration: defaults fill the omitted fields
TalkConfigData(input) ==
  [ topic |-> input.topic,
    audience |-> Default(input, "audience", "general"),
    duration |-> IF Has(input, "duration") THEN input.duration.whole
                 ELSE DefaultDuration,
    expertiseLevel |-> Default(input, "expertiseLevel", "intermediate"),
    talkType |-> Default(input, "talkType", "technical_deep_dive"),
    tone |-> Default(input, "tone", "conversational"),
    speakerName |-> Default(input, "speakerName", NoString),
    conferenceContext |-> Default(input, "conferenceContext", NoString),
    additionalNotes |-> Default(input, "additionalNotes", NoString) ]

\* TalkConfigSchema.safeParse
TalkConfigSchema_safeParse(input) ==
  LET issues == TalkConfigIssues(input)
  IN  IF issues = <<>>
      THEN [ success |-> TRUE, data |-> TalkConfigData(input) ]
      ELSE [ success |-> FALSE, error |-> [ issues |-> issues ] ]

(***************************************************************************)
(* Outline validation (modules/outline.ts)                                 *)
(***************************************************************************)
Abs(x) == IF x < 0 THEN -x ELSE x

TimingTolerance == 2

\* outline.sections.reduce((sum, section) => sum + section.duration, 0)
TotalAllocated(outline) ==
  SumSeq([ i \in 1..Len(outline.sections) |-> outline.sections[i].duration ])

\* per-section checks that flag a section of exactly half the total time
SectionTimingWarnings_halfIsTooMuch(section, totalDuration) ==
  (IF section.duration < 1 /\ section.type # "transition"
   THEN << "Section \"" \o section.title \o "\" is very short ("
           \o ToString(section.duration) \o " min)" >>
   ELSE <<>>)
  \o (IF 2 * section.duration >= totalDuration /\ section.type # "main"
      THEN << "Section \"" \o section.title \o "\" takes more than 50% of total time" >>
      ELSE <<>>)

\* the two per-section checks of validateOutlineTiming's forEach
SectionTimingWarnings(section, totalDuration) ==
  (IF section.duration < 1 /\ section.type # "transition"
   THEN << "Section \"" \o section.title \o "\" is very short ("
           \o ToString(section.duration) \o " min)" >>
   ELSE <<>>)
  \o (IF 2 * section.duration > totalDuration /\ section.type # "main"
      THEN << "Section \"" \o section.title \o "\" takes more than 50% of total time" >>
      ELSE <<>>)

\* validateOutlineTiming tolerating a difference of one minute only
validateOutlineTiming_toleranceOfOne(outline) ==
  LET totalAllocated == TotalAllocated(outline)
      difference == outline.totalDuration - totalAllocated
      warnings ==
        (IF Abs(difference) > 1
         THEN << "Timing mismatch: Total duration is "
                 \o ToString(outline.totalDuration)
                 \o " min but sections total "
                 \o ToString(totalAllocated) \o " min" >>
         ELSE <<>>)
        \o Flatten([ i \in 1..Len(outline.sections) |->
                       SectionTimingWarnings(outline.sections[i],
                                             outline.totalDuration) ])
  IN  [ isValid |-> Len(warnings) = 0,
        totalAllocated |-> totalAllocated,
        difference |-> difference,
        warnings |-> warnings ]

\* modules/outline.ts validateOutlineTiming
validateOutlineTiming(outline) ==
  LET totalAllocated == TotalAllocated(outline)
      difference == outline.totalDuration - totalAllocated
      warnings ==
        (IF Abs(difference) > TimingTolerance
         THEN << "Timing mismatch: Total duration is "
                 \o ToString(outline.totalDuration)
                 \o " min but sections total "
                 \o ToString(totalAllocated) \o " min" >>
         ELSE <<>>)
        \o Flatten([ i \in 1..Len(outline.sections) |->
                       SectionTimingWarnings(outline.sections[i],
                                             outline.totalDuration) ])
  IN  [ isValid |-> Len(warnings) = 0,
        totalAllocated |-> totalAllocated,
        difference |-> difference,
        warnings |-> warnings ]

IsMain(s) == s.type = "main"

\* the two per-section checks of suggestOutlineImprovements' forEach
SectionKeyPointSuggestions(section) ==
  (IF Len(section.keyPoints) = 0
   THEN << "Add key points to section \"" \o section.title \o "\"" >>
   ELSE <<>>)
  \o (IF Len(section.keyPoints) > 6
      THEN << "Section \"" \o section.title
              \o "\" has too many points - consider consolidating" >>
      ELSE <<>>)

\* modules/outline.ts suggestOutlineImprovements
suggestOutlineImprovements(outline) ==
  LET mainSections == SelectSeq(outline.sections, IsMain)
      hasTransitions ==
        \E i \in 1..Len(outline.sections) : outline.sections[i].type = "transition"
  IN  (IF Len(outline.learningObjectives) = 0
       THEN <<"Add 2-3 clear learning objectives for your audience">> ELSE <<>>)
      \o (IF Falsy(outline.callToAction)
          THEN <<"Add a specific call to action for your conclusion">> ELSE <<>>)
      \o (IF Len(mainSections) > 4
          THEN <<"Consider consolidating main sections - more than 4 can overwhelm">>
          ELSE <<>>)
      \o (IF Len(mainSections) < 2 /\ outline.totalDuration > 15
          THEN <<"Consider breaking your main content into multiple sections">>
          ELSE <<>>)
      \o Flatten([ i \in 1..Len(outline.sections) |->
                     SectionKeyPointSuggestions(outline.sections[i]) ])
      \o (IF ~hasTransitions /\ outline.totalDuration > 20
          THEN <<"Consider adding transition slides/moments between major sections">>
          ELSE <<>>)

(***************************************************************************)
(* Script content (modules/content.ts)                                     *)
(***************************************************************************)
\* A free text, by the measures the validator reads: text.length, the
\* number of words of text.split(/\s+/) and the number of matches of
\* /\b(API|SDK|algorithm|protocol|framework)\b/gi
Text(length, words, jargon) == [ length |-> length, words |-> words, jargon |-> jargon ]

\* the empty string ''
EmptyText == Text(0, 0, 0)

IsNotQA(s) == s.type # "qa"

\* createScriptTemplate filling every text with a placeholder paragraph
createScriptTemplate_withPlaceholders(outline) ==
  LET spoken == SelectSeq(outline.sections, IsNotQA)
  IN  [ title |-> outline.title,
        introduction |-> Text(120, 20, 0),
        sections |->
          [ i \in 1..Len(spoken) |->
              [ sectionId |-> spoken[i].id,
                title |-> spoken[i].title,
                content |-> Text(120, 20, 0),
                transitions |-> [ in |-> NoString, out |-> NoString ],
                codeExamples |-> <<>>,
                anecdotes |-> <<>> ] ],
        conclusion |-> Text(120, 20, 0),
        speakerNotes |->
          [ i \in 1..Len(outline.sections) |->
              [ sectionId |-> outline.sections[i].id,
                content |-> OrElse(outline.sections[i].notes, ""),
                timing |-> ToString(outline.sections[i].duration) \o " minutes",
                emphasis |-> <<>>,
                pausePoints |-> <<>> ] ] ]

\* modules/content.ts createScriptTemplate
createScriptTemplate(outline) ==
  LET spoken == SelectSeq(outline.sections, IsNotQA)
  IN  [ title |-> outline.title,
        introduction |-> EmptyText,
        sections |->
          [ i \in 1..Len(spoken) |->
              [ sectionId |-> spoken[i].id,
                title |-> spoken[i].title,
                content |-> EmptyText,
                transitions |-> [ in |-> NoString, out |-> NoString ],
                codeExamples |-> <<>>,
                anecdotes |-> <<>> ] ],
        conclusion |-> EmptyText,
        speakerNotes |->
          [ i \in 1..Len(outline.sections) |->
              [ sectionId |-> outline.sections[i].id,
                content |-> OrElse(outline.sections[i].notes, ""),
                timing |-> ToString(outline.sections[i].duration) \o " minutes",
                emphasis |-> <<>>,
                pausePoints |-> <<>> ] ] ]

WordsPerMinute == 150
MinIntroLength == 100
MinSectionLength == 50
JargonLimit == 5

\* modules/content.ts calculateReadingTime, on the word count of the content
calculateReadingTime(wordCount) == CeilDiv(wordCount, WordsPerMinute)

\* [introduction, ...sections.map(s => s.content), conclusion].join(' '):
\* joining with a space adds the word counts and the jargon matches
TotalContent(script) ==
  LET parts == <<script.introduction>>
               \o [ i \in 1..Len(script.sections) |-> script.sections[i].content ]
               \o <<script.conclusion>>
  IN  [ words |-> SumSeq([ i \in 1..Len(parts) |-> parts[i].words ]),
        jargon |-> SumSeq([ i \in 1..Len(parts) |-> parts[i].jargon ]) ]

\* the issues of validateContent; isValid is decided by these alone
ContentIssues(script) ==
  (IF script.introduction.length < MinIntroLength
   THEN <<"Introduction is too short or missing">> ELSE <<>>)
  \o (IF script.conclusion.length < MinIntroLength
      THEN <<"Conclusion is too short or missing">> ELSE <<>>)
  \o Flatten([ i \in 1..Len(script.sections) |->
       IF script.sections[i].content.length < MinSectionLength
       THEN << "Section \"" \o script.sections[i].title \o "\" needs more content" >>
       ELSE <<>> ])

\* the suggestions of validateContent
ContentSuggestions(script, config) ==
  LET total == TotalContent(script)
      readingTime == calculateReadingTime(total.words)
  IN  (IF 10 * readingTime > 12 * config.duration
       THEN << "Content may be too long (est. " \o ToString(readingTime)
               \o " min for " \o ToString(config.duration) \o " min talk)" >>
       ELSE IF 10 * readingTime < 8 * config.duration
       THEN << "Content may be too short (est. " \o ToString(readingTime)
               \o " min for " \o ToString(config.duration) \o " min talk)" >>
       ELSE <<>>)
      \o (IF config.audience = "general" /\ total.jargon > JargonLimit
          THEN <<"Consider explaining or reducing technical jargon for general audience">>
          ELSE <<>>)

\* validateContent counting the suggestions against validity
validateContent_suggestionsCount(script, config) ==
  LET issues == ContentIssues(script)
      suggestions == ContentSuggestions(script, config)
  IN  [ isValid |-> Len(issues) = 0 /\ Len(suggestions) = 0,
        issues |-> issues,
        suggestions |-> suggestions ]

\* modules/content.ts validateContent
validateContent(script, config) ==
  LET issues == ContentIssues(script)
  IN  [ isValid |-> Len(issues) = 0,
        issues |-> issues,
        suggestions |-> ContentSuggestions(script, config) ]

(***************************************************************************)
(* Slide decks (modules/slides.ts)                                         *)
(***************************************************************************)
\* modules/slides.ts DEFAULT_THEMES
DEFAULT_THEMES ==
  [ tech |-> [ name |-> "Tech Modern", type |-> "tech",
               primaryColor |-> "#2563eb", secondaryColor |-> "#1e40af",
               fontFamily |-> "JetBrains Mono, monospace" ],
    business |-> [ name |-> "Corporate Clean", type |-> "business",
                   primaryColor |-> "#1f2937", secondaryColor |-> "#374151",
                   fontFamily |-> "Inter, sans-serif" ],
    academic |-> [ name |-> "Academic Classic", type |-> "academic",
                   primaryColor |-> "#7c3aed", secondaryColor |-> "#5b21b6",
                   fontFamily |-> "Crimson Pro, serif" ],
    minimal |-> [ name |-> "Minimal Light", type |-> "minimal",
                  primaryColor |-> "#000000", secondaryColor |-> "#6b7280",
                  fontFamily |-> "system-ui, sans-serif" ],
    creative |-> [ name |-> "Creative Bold", type |-> "creative",
                   primaryColor |-> "#ec4899", secondaryColor |-> "#8b5cf6",
                   fontFamily |-> "Poppins, sans-serif" ] ]

\* modules/slides.ts selectThemeForAudience
selectThemeForAudience(audience) ==
  LET audienceThemeMap == [ technical |-> "tech", academic |-> "academic",
                            business |-> "business", general |-> "minimal" ]
  IN  DEFAULT_THEMES[ IF audience \in DOMAIN audienceThemeMap
                      THEN audienceThemeMap[audience] ELSE "minimal" ]

DefaultSlideDuration == 60
MaxPointsPerSlide == 4

\* The options createSlideDeckTemplate passes to createSlide, less the order
SlideOptions(layout, title, subtitle, bulletPoints, speakerNotes, duration) ==
  [ layout |-> layout, title |-> title, subtitle |-> subtitle,
    bulletPoints |-> bulletPoints, speakerNotes |-> speakerNotes,
    duration |-> duration ]

\* modules/slides.ts createSlide; an absent bulletPoints array is <<>>
createSlide(options, order, now) ==
  [ id |-> "slide-" \o ToString(order) \o "-" \o ToString(now),
    order |-> order,
    layout |-> OrElse(options.layout, "content"),
    title |-> options.title,
    subtitle |-> options.subtitle,
    content |-> NoString,
    bulletPoints |-> options.bulletPoints,
    imagePrompt |-> NoString,
    code |-> undefined,
    quote |-> undefined,
    speakerNotes |-> OrElse(options.speakerNotes, ""),
    duration |-> IF options.duration = 0 THEN DefaultSlideDuration
                 ELSE options.duration ]

\* content slides that put every key point of a section on one slide
ContentSlideOptions_singleSlide(section) ==
  IF Len(section.keyPoints) = 0 THEN <<>>
  ELSE << SlideOptions("bullet_points", section.title, NoString, section.keyPoints,
                       "Cover these points: " \o Join(section.keyPoints, "; "),
                       section.duration * 60) >>

\* The bullet_points slides of one section: its key points in groups of
\* pointsPerSlide = min(4, n); each lasts the section's seconds divided by
\* the number of groups (exact for integer minutes and up to 24 key points)
ContentSlideOptions(section) ==
  LET n == Len(section.keyPoints)
      pointsPerSlide == Min(MaxPointsPerSlide, n)
      count == CeilDiv(n, pointsPerSlide)
  IN  IF n = 0 THEN <<>>
      ELSE [ k \in 1..count |->
               LET points == Slice(section.keyPoints, (k - 1) * pointsPerSlide,
                                   k * pointsPerSlide)
               IN  SlideOptions("bullet_points", section.title, NoString, points,
                                "Cover these points: " \o Join(points, "; "),
                                (section.duration * 60) \div count) ]

\* The section_header slide of a section followed by its content slides
SectionSlideOptions(section) ==
  << SlideOptions("section_header", section.title, NoString, <<>>,
                  "Transition to " \o section.title \o ". "
                    \o OrElse(section.notes, ""),
                  15) >>
  \o ContentSlideOptions(section)

\* modules/slides.ts createSlideDeckTemplate
createSlideDeckTemplate(config, outline, now) ==
  LET options ==
        << SlideOptions("title", outline.title,
                        OrElse(outline.subtitle, config.speakerName), <<>>,
                        "Introduce yourself. Wait for audience attention before starting.",
                        30) >>
        \o Flatten([ i \in 1..Len(outline.sections) |->
                       SectionSlideOptions(outline.sections[i]) ])
        \o (IF \E i \in 1..Len(outline.sections) : outline.sections[i].type = "qa"
            THEN << SlideOptions("qa", "Questions?", NoString, <<>>,
                                 "Open the floor for questions. Have backup topics ready.",
                                 60) >>
            ELSE <<>>)
        \o << SlideOptions("title", "Thank You",
                           OrElse(outline.callToAction,
                                  "Questions and discussion welcome"), <<>>,
                           "Thank the audience. Remind them of the call to action.",
                           15) >>
      slides == [ i \in 1..Len(options) |-> createSlide(options[i], i - 1, now) ]
  IN  [ title |-> outline.title,
        author |-> config.speakerName,
        date |-> "date-" \o ToString(now),
        theme |-> selectThemeForAudience(config.audience),
        slides |-> slides,
        metadata |->
          [ totalSlides |-> Len(slides),
            estimatedDuration |->
              SumSeq([ i \in 1..Len(slides) |-> slides[i].duration ]),
            generatedAt |-> "time-" \o ToString(now),
            version |-> "1.0.0" ] ]

MaxBulletPoints == 6

\* modules/slides.ts validateSlideDeck
validateSlideDeck(deck, config) ==
  LET n == Len(deck.slides)
      expectedSlides == config.duration
      Untitled(s) == Falsy(s.title) /\ s.layout # "image_full"
      NoNotes(s) == Falsy(s.speakerNotes)
      untitledSlides == SelectSeq(deck.slides, Untitled)
      slidesWithoutNotes == SelectSeq(deck.slides, NoNotes)
      warnings ==
        (IF 2 * n > 3 * expectedSlides
         THEN << "Too many slides (" \o ToString(n) \o ") for "
                 \o ToString(config.duration) \o "-min talk. Consider consolidating." >>
         ELSE <<>>)
        \o Flatten([ i \in 1..n |->
             IF Len(deck.slides[i].bulletPoints) > MaxBulletPoints
             THEN << "Slide " \o ToString(i) \o " has "
                     \o ToString(Len(deck.slides[i].bulletPoints))
                     \o " bullet points - consider splitting" >>
             ELSE <<>> ])
      suggestions ==
        (IF ~(2 * n > 3 * expectedSlides) /\ 2 * n < expectedSlides
         THEN << "Few slides (" \o ToString(n) \o ") for "
                 \o ToString(config.duration)
                 \o "-min talk. Ensure each has enough content." >>
         ELSE <<>>)
        \o (IF Len(untitledSlides) > 0
            THEN << ToString(Len(untitledSlides)) \o " slides lack titles" >>
            ELSE <<>>)
        \o (IF 10 * Len(slidesWithoutNotes) > 3 * n
            THEN <<"Many slides lack speaker notes - add notes for better delivery">>
            ELSE <<>>)
  IN  [ isValid |-> Len(warnings) = 0,
        warnings |-> warnings,
        suggestions |-> suggestions ]


(***************************************************************************)
(* Text of exported documents.  A text that an export reads character by   *)
(* character is a sequence of one-character strings.                       *)
(***************************************************************************)
\* modules/slides.ts escapeHtml: five replacements, one after the other;
\* ReplaceAll is text.replace(/c/g, replacement) for a single character c
escapeHtml(text) ==
  LET ReplaceAll(input, c, replacement) ==
        Flatten([ i \in 1..Len(input) |->
                    IF input[i] = c THEN replacement ELSE << input[i] >> ])
      amp == ReplaceAll(text, "&", << "&", "a", "m", "p", ";" >>)
      lt == ReplaceAll(amp, "<", << "&", "l", "t", ";" >>)
      gt == ReplaceAll(lt, ">", << "&", "g", "t", ";" >>)
      quot == ReplaceAll(gt, "\"", << "&", "q", "u", "o", "t", ";" >>)
  IN  ReplaceAll(quot, "'", << "&", "#", "0", "3", "9", ";" >>)

(***************************************************************************)
(* JSON.stringify and JSON.parse.  A JavaScript value is a record tagged   *)
(* with its type; an object keeps its members in insertion order.  A JSON  *)
(* text is the sequence of its tokens: the indentation that                *)
(* JSON.stringify(value, null, 2) puts between them is left out, the       *)
(* characters of every string and number token are kept.                   *)
(***************************************************************************)
JsUndefined == [ type |-> "undefined" ]
\* a "string" with its characters, a "number" with its integer, an "array"
\* with its elements, an "object" with its members
Js(type, data) == [ type |-> type, data |-> data ]
Member(key, value) == [ key |-> key, value |-> value ]

\* object[key], undefined when the object has no such member
Get(object, key) ==
  LET found == SelectSeq(object.data, LAMBDA m : m.key = key)
  IN  IF found = <<>> THEN JsUndefined ELSE found[1].value

\* { ...object, key: value }: an existing key keeps its place
Set(object, key, value) ==
  IF \E i \in 1..Len(object.data) : object.data[i].key = key
  THEN Js("object", [ i \in 1..Len(object.data) |->
                   IF object.data[i].key = key THEN Member(key, value)
                   ELSE object.data[i] ])
  ELSE Js("object", Append(object.data, Member(key, value)))

\* the truthiness of a value that is undefined, a string, an object or an array
Truthy(value) ==
  CASE value.type \in { "undefined", "null" } -> FALSE
    [] value.type = "string" -> value.data # <<>>
    [] value.type = "number" -> value.data # 0
    [] OTHER -> TRUE

Token(t, text) == [ t |-> t, text |-> text ]

\* String(n) for an integer n
RECURSIVE NumberText(_)
NumberText(n) ==
  LET DecimalDigits == << "0", "1", "2", "3", "4", "5", "6", "7", "8", "9" >>
  IN  IF n < 0 THEN << "-" >> \o NumberText(-n)
      ELSE IF n < 10 THEN << DecimalDigits[n + 1] >>
      ELSE NumberText(n \div 10) \o << DecimalDigits[(n % 10) + 1] >>

\* the integer that a number token denotes
RECURSIVE ParseNumberText(_)
ParseNumberText(text) ==
  IF text[1] = "-" THEN -ParseNumberText(Tail(text))
  ELSE LET last == CHOOSE d \in 0..9 : NumberText(d) = << text[Len(text)] >>
       IN  IF Len(text) = 1 THEN last
           ELSE 10 * ParseNumberText(SubSeq(text, 1, Len(text) - 1)) + last

\* the characters JSON.stringify writes between the quotes of a string
QuoteJsonString(text) ==
  Flatten([ i \in 1..Len(text) |->
              CASE text[i] = "\"" -> << "\\", "\"" >>
                [] text[i] = "\\" -> << "\\", "\\" >>
                [] text[i] = "\n" -> << "\\", "n" >>
                [] text[i] = "\t" -> << "\\", "t" >>
                [] OTHER -> << text[i] >> ])

\* the string JSON.parse reads from the characters between the quotes
RECURSIVE UnquoteJsonString(_)
UnquoteJsonString(text) ==
  IF text = <<>> THEN <<>>
  ELSE IF text[1] = "\\" /\ Len(text) > 1
  THEN << CASE text[2] = "n" -> "\n"
            [] text[2] = "t" -> "\t"
            [] OTHER -> text[2] >>
       \o UnquoteJsonString(SubSeq(text, 3, Len(text)))
  ELSE << text[1] >> \o UnquoteJsonString(Tail(text))

\* token sequences joined by commas
RECURSIVE Separated(_)
Separated(parts) ==
  IF parts = <<>> THEN <<>>
  ELSE IF Len(parts) = 1 THEN parts[1]
  ELSE parts[1] \o << Token(",", <<>>) >> \o Separated(Tail(parts))

\* JSON.stringify: a member whose value is undefined is left out, an array
\* element that is undefined is written null; a key token is the quoted
\* name of a member with its colon, the names being identifiers
RECURSIVE JsonStringify(_)
JsonStringify(value) ==
  CASE value.type = "string" -> << Token("string", QuoteJsonString(value.data)) >>
    [] value.type = "number" -> << Token("number", NumberText(value.data)) >>
    [] value.type \in { "null", "undefined" } -> << Token("null", <<>>) >>
    [] value.type = "array" ->
         << Token("[", <<>>) >>
         \o Separated([ i \in 1..Len(value.data) |-> JsonStringify(value.data[i]) ])
         \o << Token("]", <<>>) >>
    [] value.type = "object" ->
         LET written == SelectSeq(value.data, LAMBDA m : m.value.type # "undefined")
         IN  << Token("{", <<>>) >>
             \o Separated([ i \in 1..Len(written) |->
                              << Token("key", written[i].key) >>
                              \o JsonStringify(written[i].value) ])
             \o << Token("}", <<>>) >>

\* JSON.parse by recursive descent: the value that starts at tokens[pos] and
\* the position after it
RECURSIVE ParseValue(_, _), ParseMembers(_, _, _), ParseElements(_, _, _)
ParseValue(tokens, pos) ==
  LET tok == tokens[pos]
  IN  CASE tok.t = "string" ->
             [ value |-> Js("string", UnquoteJsonString(tok.text)), next |-> pos + 1 ]
        [] tok.t = "number" ->
             [ value |-> Js("number", ParseNumberText(tok.text)), next |-> pos + 1 ]
        [] tok.t = "null" -> [ value |-> [ type |-> "null" ], next |-> pos + 1 ]
        [] tok.t = "[" ->
             IF tokens[pos + 1].t = "]"
             THEN [ value |-> Js("array", <<>>), next |-> pos + 2 ]
             ELSE ParseElements(tokens, pos + 1, <<>>)
        [] tok.t = "{" ->
             IF tokens[pos + 1].t = "}"
             THEN [ value |-> Js("object", <<>>), next |-> pos + 2 ]
             ELSE ParseMembers(tokens, pos + 1, <<>>)

ParseElements(tokens, pos, items) ==
  LET element == ParseValue(tokens, pos)
      read == Append(items, element.value)
  IN  IF tokens[element.next].t = ","
      THEN ParseElements(tokens, element.next + 1, read)
      ELSE [ value |-> Js("array", read), next |-> element.next + 1 ]

ParseMembers(tokens, pos, members) ==
  LET member == ParseValue(tokens, pos + 1)
      read == Append(members, Member(tokens[pos].text, member.value))
  IN  IF tokens[member.next].t = ","
      THEN ParseMembers(tokens, member.next + 1, read)
      ELSE [ value |-> Js("object", read), next |-> member.next + 1 ]

JsonParse(tokens) == ParseValue(tokens, 1).value

(***************************************************************************)
(* Export of a slide deck (modules/slides.ts).  The deck is the JavaScript *)
(* object that is passed, the options a record of the two flags and the    *)
(* optional theme.                                                         *)
(***************************************************************************)
\* text.replace(/\s+/g, '-'): every run of whitespace becomes one hyphen
RECURSIVE HyphenateWhitespace(_)
HyphenateWhitespace(text) ==
  LET IsWhitespace(c) == c \in { " ", "\t", "\n", "\r" }
  IN  IF text = <<>> THEN <<>>
      ELSE IF ~IsWhitespace(text[1])
           THEN << text[1] >> \o HyphenateWhitespace(Tail(text))
      ELSE IF Len(text) > 1 /\ IsWhitespace(text[2])
           THEN HyphenateWhitespace(Tail(text))
      ELSE << "-" >> \o HyphenateWhitespace(Tail(text))

\* `${deck.title.toLowerCase().replace(/\s+/g, '-')}-slides.<extension>`
\* (toLowerCase acts on the letters A-Z)
ExportFileName(deck, extension) ==
  LET UpperCaseLetters ==
        << "A", "B", "C", "D", "E", "F", "G", "H", "I", "J", "K", "L", "M", "N", "O", "P", "Q", "R", "S", "T", "U", "V", "W", "X", "Y", "Z" >>
      LowerCaseLetters ==
        << "a", "b", "c", "d", "e", "f", "g", "h", "i", "j", "k", "l", "m", "n", "o", "p", "q", "r", "s", "t", "u", "v", "w", "x", "y", "z" >>
      ToLowerCase(text) ==
        [ i \in 1..Len(text) |->
            IF \E k \in 1..26 : UpperCaseLetters[k] = text[i]
            THEN LowerCaseLetters[CHOOSE k \in 1..26 : UpperCaseLetters[k] = text[i]]
            ELSE text[i] ]
  IN  HyphenateWhitespace(ToLowerCase(Get(deck, "title").data))
      \o << "-", "s", "l", "i", "d", "e", "s", "." >> \o extension

\* an export that drops the slides without speaker notes when the notes
\* are asked for
exportToJson_onlyAnnotatedSlides(deck, options) ==
  LET kept == IF options.includeNotes
              THEN SelectSeq(Get(deck, "slides").data,
                             LAMBDA slide : Truthy(Get(slide, "speakerNotes")))
              ELSE Get(deck, "slides").data
      exportData == Set(deck, "slides", Js("array", kept))
  IN  [ format |-> "json",
        content |-> JsonStringify(exportData),
        filename |-> ExportFileName(deck, << "j", "s", "o", "n" >>),
        mimeType |-> "application/json" ]

\* modules/slides.ts exportToJson
exportToJson(deck, options) ==
  LET slides == Get(deck, "slides").data
      exportData ==
        Set(deck, "slides",
            Js("array", [ i \in 1..Len(slides) |->
                        Set(Set(slides[i], "speakerNotes",
                                IF options.includeNotes
                                THEN Get(slides[i], "speakerNotes") ELSE JsUndefined),
                            "duration",
                            IF options.includeTimings
                            THEN Get(slides[i], "duration") ELSE JsUndefined) ]))
  IN  [ format |-> "json",
        content |-> JsonStringify(exportData),
        filename |-> ExportFileName(deck, << "j", "s", "o", "n" >>),
        mimeType |-> "application/json" ]

\* A piece of the HTML document: markup that the program writes, or a
\* value that is interpolated, with the expression it comes from
Markup(text) == [ kind |-> "markup", text |-> text ]
Interpolated(source, text) == [ kind |-> "value", source |-> source, text |-> text ]

\* modules/slides.ts exportToHtml: content is the document as the sequence
\* of its pieces; the style sheet, which interpolates nothing but the three
\* custom properties, is cut down to them.  SlideHtml is the block that the
\* forEach writes for the slide at index (from 0); the dash that precedes an
\* attribution is written -.  TextOr is value || fallback.
exportToHtml(deck, options) ==
  LET theme == IF Truthy(options.theme) THEN options.theme ELSE Get(deck, "theme")
      slides == Get(deck, "slides").data
      TextOr(value, fallback) == IF Truthy(value) THEN value.data ELSE fallback
      SlideHtml(slide, index, total) ==
        LET layout == Get(slide, "layout").data
            isTitle == layout = << "t", "i", "t", "l", "e" >>
            layoutClass == IF isTitle THEN "slide-title"
                           ELSE IF layout = << "s", "e", "c", "t", "i", "o", "n", "_", "h", "e", "a", "d", "e", "r" >>
                                THEN "slide-section-header" ELSE ""
            points == Get(slide, "bulletPoints")
            code == Get(slide, "code")
            quote == Get(slide, "quote")
        IN  << Markup("  <div class=\"slide " \o layoutClass \o "\">\n") >>
            \o (IF Truthy(Get(slide, "title"))
                THEN << Markup(IF isTitle THEN "    <h1>" ELSE "    <h2>"),
                        Interpolated("slide.title", escapeHtml(Get(slide, "title").data)),
                        Markup(IF isTitle THEN "</h1>\n" ELSE "</h2>\n") >>
                ELSE <<>>)
            \o (IF Truthy(Get(slide, "subtitle"))
                THEN << Markup("    <p class=\"subtitle\">"),
                        Interpolated("slide.subtitle", escapeHtml(Get(slide, "subtitle").data)),
                        Markup("</p>\n") >>
                ELSE <<>>)
            \o (IF Truthy(Get(slide, "content"))
                THEN << Markup("    <p>"),
                        Interpolated("slide.content", escapeHtml(Get(slide, "content").data)),
                        Markup("</p>\n") >>
                ELSE <<>>)
            \o (IF Truthy(points) /\ Len(points.data) > 0
                THEN << Markup("    <ul>\n") >>
                     \o Flatten([ k \in 1..Len(points.data) |->
                                    << Markup("      <li>"),
                                       Interpolated("slide.bulletPoints",
                                                    escapeHtml(points.data[k].data)),
                                       Markup("</li>\n") >> ])
                     \o << Markup("    </ul>\n") >>
                ELSE <<>>)
            \o (IF Truthy(code)
                THEN << Markup("    <pre><code class=\"language-"),
                        Interpolated("slide.code.language", Get(code, "language").data),
                        Markup("\">"),
                        Interpolated("slide.code.code", escapeHtml(Get(code, "code").data)),
                        Markup("</code></pre>\n") >>
                ELSE <<>>)
            \o (IF Truthy(quote)
                THEN << Markup("    <blockquote>"),
                        Interpolated("slide.quote.text", escapeHtml(Get(quote, "text").data)),
                        Markup("</blockquote>\n") >>
                     \o (IF Truthy(Get(quote, "attribution"))
                         THEN << Markup("    <p class=\"attribution\">- "),
                                 Interpolated("slide.quote.attribution",
                                              escapeHtml(Get(quote, "attribution").data)),
                                 Markup("</p>\n") >>
                         ELSE <<>>)
                ELSE <<>>)
            \o (IF options.includeNotes /\ Truthy(Get(slide, "speakerNotes"))
                THEN << Markup("    <div class=\"speaker-notes\">\n      <strong>Notes:</strong> "),
                        Interpolated("slide.speakerNotes",
                                     escapeHtml(Get(slide, "speakerNotes").data)),
                        Markup("\n    </div>\n") >>
                ELSE <<>>)
            \o << Markup("    <span class=\"slide-number\">"),
                  Interpolated("index + 1", NumberText(index + 1)),
                  Markup(" / "),
                  Interpolated("deck.slides.length", NumberText(total)),
                  Markup("</span>\n  </div>\n\n") >>
  IN  [ format |-> "html",
        content |->
          << Markup("<!DOCTYPE html>\n<html lang=\"en\">\n<head>\n  <title>"),
             Interpolated("deck.title", Get(deck, "title").data),
             Markup("</title>\n  <style>\n    :root {\n      --primary-color: "),
             Interpolated("theme.primaryColor",
                          TextOr(Get(theme, "primaryColor"), << "#", "2", "5", "6", "3", "e", "b" >>)),
             Markup(";\n      --secondary-color: "),
             Interpolated("theme.secondaryColor",
                          TextOr(Get(theme, "secondaryColor"), << "#", "1", "e", "4", "0", "a", "f" >>)),
             Markup(";\n      --font-family: "),
             Interpolated("theme.fontFamily",
                          TextOr(Get(theme, "fontFamily"), << "s", "y", "s", "t", "e", "m", "-", "u", "i", ",", " ", "s", "a", "n", "s", "-", "s", "e", "r", "i", "f" >>)),
             Markup(";\n    }\n  </style>\n</head>\n<body>\n") >>
          \o Flatten([ i \in 1..Len(slides) |->
                         SlideHtml(slides[i], i - 1, Len(slides)) ])
          \o << Markup("</body>\n</html>") >>,
        filename |-> ExportFileName(deck, << "h", "t", "m", "l" >>),
        mimeType |-> "text/html" ]
(***************************************************************************)
(* Q&A preparation and rehearsal (modules/rehearsal.ts)                    *)
(***************************************************************************)
\* modules/rehearsal.ts generateAnticipatedQuestions: genericQuestions
\* (an absent followUpQuestions or pitfalls array is <<>>)
genericQuestions ==
  <<
    [ question |-> "Can you elaborate on that last point?",
      category |-> "clarification", difficulty |-> "easy",
      suggestedAnswer |->
        "Sure, let me break that down further. The key aspect is... [elaborate with an example]",
      followUpQuestions |-> << "How does that apply in practice?" >>,
      pitfalls |-> << "Don't repeat the same words, provide new context" >> ],
    [ question |-> "How did you get started with this topic?",
      category |-> "expansion", difficulty |-> "easy",
      suggestedAnswer |->
        "Share your personal journey briefly, then connect it to why this matters for the audience.",
      followUpQuestions |-> <<>>,
      pitfalls |-> << "Don't make it too long or self-focused" >> ],
    [ question |-> "What are the main challenges or limitations?",
      category |-> "challenge", difficulty |-> "medium",
      suggestedAnswer |->
        "Acknowledge limitations honestly, then explain how to mitigate them.",
      followUpQuestions |-> << "How do you work around those limitations?" >>,
      pitfalls |-> << "Don't be defensive", "Don't oversell or dismiss concerns" >> ],
    [ question |-> "How does this compare to [alternative approach]?",
      category |-> "technical", difficulty |-> "hard",
      suggestedAnswer |->
        "Provide an honest comparison, acknowledging trade-offs. Each approach has strengths...",
      followUpQuestions |-> <<>>,
      pitfalls |-> << "Don't bash alternatives", "Be fair and objective" >> ],
    [ question |-> "Where can I learn more about this?",
      category |-> "practical", difficulty |-> "easy",
      suggestedAnswer |->
        "Have 2-3 resources ready: documentation, books, tutorials, or communities.",
      followUpQuestions |-> <<>>,
      pitfalls |-> << "Don't say you'll follow up if you won't" >> ]
  >>

\* modules/rehearsal.ts generateAnticipatedQuestions: audienceQuestions
audienceQuestions ==
  [ technical |-> <<
      [ question |-> "What's the performance impact of this approach?",
        category |-> "technical", difficulty |-> "hard",
        suggestedAnswer |->
          "Provide benchmarks if available, or explain the theoretical complexity and trade-offs.",
        followUpQuestions |-> <<>>,
        pitfalls |-> << "Don't make up numbers", "Admit if you haven't measured" >> ],
      [ question |-> "How does this scale in production?",
        category |-> "technical", difficulty |-> "hard",
        suggestedAnswer |->
          "Share real-world experience or case studies. Discuss scaling considerations.",
        followUpQuestions |-> << "What was your largest deployment?" >>,
        pitfalls |-> << "Be honest about scale you've actually handled" >> ]
    >>,
    academic |-> <<
      [ question |-> "What's your methodology for this research?",
        category |-> "technical", difficulty |-> "medium",
        suggestedAnswer |->
          "Explain your methodology clearly, including sample size, variables, and controls.",
        followUpQuestions |-> <<>>,
        pitfalls |-> << "Don't oversimplify if it would misrepresent your work" >> ],
      [ question |-> "What are the limitations of this study?",
        category |-> "challenge", difficulty |-> "medium",
        suggestedAnswer |->
          "Acknowledge limitations proactively. Discuss how future work could address them.",
        followUpQuestions |-> <<>>,
        pitfalls |-> << "Don't be defensive about limitations" >> ]
    >>,
    business |-> <<
      [ question |-> "What's the ROI on implementing this?",
        category |-> "practical", difficulty |-> "medium",
        suggestedAnswer |->
          "Provide concrete examples or case studies. Discuss both direct and indirect benefits.",
        followUpQuestions |-> <<>>,
        pitfalls |-> << "Don't make up numbers", "Acknowledge context matters" >> ],
      [ question |-> "How long until we see results?",
        category |-> "practical", difficulty |-> "medium",
        suggestedAnswer |->
          "Give realistic timelines. Discuss quick wins vs long-term benefits.",
        followUpQuestions |-> <<>>,
        pitfalls |-> << "Don't overpromise on timelines" >> ]
    >>,
    general |-> <<
      [ question |-> "How does this affect everyday people?",
        category |-> "expansion", difficulty |-> "easy",
        suggestedAnswer |->
          "Connect to relatable, everyday scenarios. Use analogies.",
        followUpQuestions |-> <<>>,
        pitfalls |-> << "Don't be condescending", "Use inclusive examples" >> ],
      [ question |-> "Can you give a simple example?",
        category |-> "clarification", difficulty |-> "easy",
        suggestedAnswer |->
          "Have 2-3 simple analogies or examples ready for key concepts.",
        followUpQuestions |-> <<>>,
        pitfalls |-> << "Don't oversimplify to the point of inaccuracy" >> ]
    >> ]

\* modules/rehearsal.ts generateRedirectStrategies
generateRedirectStrategies ==
  << "Bridge to your key message: \"That's interesting, and what's even more relevant is...\"",
     "Acknowledge and defer: \"Great question. Let me address that after we finish, as it deserves full attention.\"",
     "Turn to the audience: \"That's a great point. Has anyone else encountered this?\"",
     "Provide partial answer: \"I can speak to part of that. The aspect I'm most familiar with is...\"",
     "Admit boundaries: \"That's outside my area of expertise, but I can point you to some resources.\"",
     "Reframe the question: \"If I understand correctly, you're asking about... Let me address that.\"" >>
\* ['best', 'only', 'always', 'never', 'wrong'].some(kw =>
\*   point.toLowerCase().includes(kw)), tabulated over the key points that
\* occur in the model: no key-point prompt of a template contains a keyword
ControversialKeyPoints ==
  { "Always version your schema", "The only way to avoid over-fetching" }

ContainsControversialKeyword(point) == point \in ControversialKeyPoints

\* the question generated for a main section with at least one key point
SectionQuestion(section) ==
  [ question |-> "Can you tell us more about \"" \o section.keyPoints[1] \o "\"?",
    category |-> "expansion", difficulty |-> "medium",
    suggestedAnswer |->
      "Expand with additional details, examples, or context about "
        \o section.keyPoints[1] \o ".",
    followUpQuestions |-> <<>>,
    pitfalls |-> << "Don't just repeat what you said" >> ]

\* a numbering that starts again for the questions on the sections
generateAnticipatedQuestions_sectionIdsRestart(config, outline) ==
  LET Asked(s) == s.type = "main" /\ Len(s.keyPoints) > 0
      asked == SelectSeq(outline.sections, Asked)
      fixed == genericQuestions \o audienceQuestions[config.audience]
  IN  [ i \in 1..Len(fixed) |-> [ id |-> "q-" \o ToString(i) ] @@ fixed[i] ]
      \o [ i \in 1..Len(asked) |->
             [ id |-> "q-" \o ToString(i) ] @@ SectionQuestion(asked[i]) ]

\* modules/rehearsal.ts generateAnticipatedQuestions: ids q-1, q-2, ... in
\* the order generic, audience, per section
generateAnticipatedQuestions(config, outline) ==
  LET Asked(s) == s.type = "main" /\ Len(s.keyPoints) > 0
      asked == SelectSeq(outline.sections, Asked)
      questions ==
        genericQuestions
        \o audienceQuestions[config.audience]
        \o [ i \in 1..Len(asked) |-> SectionQuestion(asked[i]) ]
  IN  [ i \in 1..Len(questions) |->
          [ id |-> "q-" \o ToString(i) ] @@ questions[i] ]

\* modules/rehearsal.ts identifyChallengingTopics
identifyChallengingTopics(outline) ==
  Flatten([ i \in 1..Len(outline.sections) |->
    LET section == outline.sections[i]
    IN  (IF Len(section.keyPoints) > 4
         THEN << section.title \o " - complex with many sub-points" >>
         ELSE <<>>)
        \o Flatten([ k \in 1..Len(section.keyPoints) |->
             IF ContainsControversialKeyword(section.keyPoints[k])
             THEN << "\"" \o section.keyPoints[k]
                     \o "\" - absolute claims may be challenged" >>
             ELSE <<>> ]) ])

\* modules/rehearsal.ts createQAPreparation; preparedResponses is the empty Map
createQAPreparation(config, outline) ==
  [ anticipatedQuestions |-> generateAnticipatedQuestions(config, outline),
    challengingTopics |-> identifyChallengingTopics(outline),
    preparedResponses |-> <<>>,
    redirectStrategies |-> generateRedirectStrategies ]

\* modules/rehearsal.ts createRehearsalSession
createRehearsalSession(outline, now) ==
  [ id |-> "rehearsal-" \o ToString(now),
    startTime |-> now,
    endTime |-> <<>>,
    sections |->
      [ i \in 1..Len(outline.sections) |->
          [ sectionId |-> outline.sections[i].id,
            targetDuration |-> outline.sections[i].duration * 60,
            actualDuration |-> <<>>,
            status |-> "not_started" ] ],
    feedback |->
      [ overallTiming |-> [ target |-> outline.totalDuration * 60,
                            actual |-> 0, variance |-> 0 ],
        sectionFeedback |-> <<>>,
        suggestions |-> <<>>,
        strengthAreas |-> <<>>,
        improvementAreas |-> <<>> ] ]

\* n.toString().padStart(2, '0')
Pad2(n) == IF n < 10 THEN "0" \o ToString(n) ELSE ToString(n)

\* modules/rehearsal.ts formatTime on a time of num/den minutes:
\* mins = floor, secs = Math.round of the remainder in seconds
formatTime(num, den) ==
  LET mins == num \div den
      secs == (2 * 60 * (num % den) + den) \div (2 * den)
  IN  Pad2(mins) \o ":" \o Pad2(secs)

\* the lines generateTimingCues adds for the sections from index i on,
\* runningTime being the minutes allocated to the sections before
RECURSIVE SectionCues(_, _, _)
SectionCues(sections, i, runningTime) ==
  IF i > Len(sections) THEN ""
  ELSE
    LET section == sections[i]
        n == Len(section.keyPoints)
        endMinutes == runningTime + section.duration
        points == [ k \in 1..n |->
                      "- " \o formatTime(runningTime * n + section.duration * (k - 1), n)
                           \o ": " \o section.keyPoints[k] \o "\n" ]
    IN  "## " \o ToString(i) \o ". " \o section.title \o "\n"
        \o "**Start:** " \o formatTime(runningTime, 1)
        \o " | **End:** " \o formatTime(endMinutes, 1)
        \o " | **Duration:** " \o ToString(section.duration) \o " min\n\n"
        \o Join(points, "")
        \o "\n"
        \o SectionCues(sections, i + 1, endMinutes)

\* modules/rehearsal.ts generateTimingCues
generateTimingCues(outline) ==
  "# Timing Cues\n\n"
  \o SectionCues(outline.sections, 1, 0)
  \o "**Total Duration:** " \o formatTime(outline.totalDuration, 1) \o "\n"

\* modules/rehearsal.ts generatePracticeSuggestions
generatePracticeSuggestions(config) ==
  << "Record yourself and watch for filler words and nervous habits",
     "Practice in front of a mirror to observe body language",
     "Do a full run-through at least 3 times before the event",
     "Practice with different time constraints (tight vs relaxed)" >>
  \o CASE config.talkType = "keynote" ->
            << "Practice your opening 10 times - it sets the tone",
               "Work on dramatic pauses and emphasis",
               "Rehearse the call to action until it feels natural" >>
       [] config.talkType = "technical_deep_dive" ->
            << "Test all demos multiple times",
               "Have backup slides if live coding fails",
               "Practice explaining complex concepts simply" >>
       [] config.talkType = "workshop" ->
            << "Time each exercise carefully",
               "Prepare for common errors and questions",
               "Have extension activities for fast finishers" >>
       [] config.talkType = "lightning_talk" ->
            << "Every second counts - time it precisely",
               "Cut ruthlessly - one point only",
               "Practice transitioning smoothly" >>
       [] config.talkType = "panel_discussion" ->
            << "Prepare 3-4 strong talking points",
               "Practice active listening and building on others' points",
               "Have data ready to support your positions" >>

(***************************************************************************)
(* Ideation (modules/ideation.ts)                                          *)
(***************************************************************************)
\* modules/ideation.ts suggestTopicRefinements
suggestTopicRefinements(topic, talkType, duration) ==
  (IF duration <= 10
   THEN << "Focus on ONE specific aspect of \"" \o topic \o "\" for a lightning talk",
           "Consider framing as \"The Most Important Thing About " \o topic \o "\"",
           "Try a problem-solution format: one problem, one solution" >>
   ELSE IF duration <= 30
   THEN << "Cover 2-3 key insights about \"" \o topic \o "\"",
           "Consider a \"lessons learned\" or \"mistakes to avoid\" angle",
           "Frame around a compelling story or case study" >>
   ELSE << "Deep dive with comprehensive coverage of \"" \o topic \o "\"",
           "Include hands-on exercises or demos",
           "Cover both theory and practical application" >>)
  \o CASE talkType = "keynote" ->
            << "Frame around a bold vision or prediction",
               "Connect to broader industry trends",
               "Include a personal journey or transformation story" >>
       [] talkType = "technical_deep_dive" ->
            << "Focus on implementation details and gotchas",
               "Include live coding or detailed examples",
               "Discuss performance characteristics and benchmarks" >>
       [] talkType = "workshop" ->
            << "Define clear learning objectives",
               "Plan hands-on exercises at regular intervals",
               "Prepare materials for different skill levels" >>
       [] talkType = "lightning_talk" ->
            << "Pick the single most surprising insight",
               "Use a memorable hook or demo",
               "End with a clear call to action" >>
       [] talkType = "panel_discussion" ->
            << "Prepare strong opening position",
               "Identify areas of potential debate",
               "Have data/examples ready to support points" >>

\* modules/ideation.ts generateDiscoveryQuestions
generateDiscoveryQuestions(config) ==
  LET baseQuestions ==
        << "What inspired you to speak about \"" \o config.topic \o "\"?",
           "What unique perspective or experience do you bring to this topic?",
           "What do you want the audience to DO after your talk?",
           "What common misconceptions about this topic should be addressed?",
           "What's the most surprising or counterintuitive aspect of this topic?" >>
      audienceQuestions_ ==
        [ technical |-> << "What technical problems does this solve?",
                           "What alternatives exist and why is this approach better?",
                           "What are the main implementation challenges?" >>,
          academic |-> << "What research gaps does this address?",
                          "What methodology will you present?",
                          "What are the implications for future research?" >>,
          business |-> << "What business outcomes does this enable?",
                          "What's the ROI or competitive advantage?",
                          "What case studies or success stories can you share?" >>,
          general |-> << "Why should someone unfamiliar with this care?",
                         "What everyday analogy explains this concept?",
                         "How does this affect people's daily lives?" >> ]
  IN  baseQuestions \o audienceQuestions_[config.audience]


\* a version that forgets to compare the section ids
updateSectionTiming_everySection(session, sectionId, actualDuration) ==
  [ argument |-> session,
    result |->
      [ session EXCEPT !.sections =
          [ i \in 1..Len(session.sections) |->
              [ session.sections[i] EXCEPT !.actualDuration = << actualDuration >>,
                                           !.status = "completed" ] ] ] ]

\* modules/rehearsal.ts updateSectionTiming: result is the session returned,
\* argument the session object that was passed, as it is after the call.
\* An optional number is <<>> when absent and <<n>> when set.
updateSectionTiming(session, sectionId, actualDuration) ==
  LET updatedSections ==
        [ i \in 1..Len(session.sections) |->
            IF session.sections[i].sectionId = sectionId
            THEN [ session.sections[i] EXCEPT !.actualDuration = << actualDuration >>,
                                              !.status = "completed" ]
            ELSE session.sections[i] ]
  IN  [ argument |-> session,
        result |-> [ session EXCEPT !.sections = updatedSections ] ]

\* a feedback that counts a section within 15% only when it is strictly
\* inside the band
generateRehearsalFeedback_boundaryOffTrack(session, outline) ==
  LET timed == SelectSeq(session.sections, LAMBDA s : s.actualDuration # <<>>)
      Status(s) ==
        LET variance == s.actualDuration[1] - s.targetDuration
        IN  IF 100 * variance >= 15 * s.targetDuration THEN "too_slow"
            ELSE IF 100 * variance <= -15 * s.targetDuration THEN "too_fast"
            ELSE "on_track"
  IN  [ overallTiming |-> [ target |-> 0, actual |-> 0, variance |-> 0 ],
        sectionFeedback |->
          [ i \in 1..Len(timed) |->
              [ sectionId |-> timed[i].sectionId, timingStatus |-> Status(timed[i]),
                suggestions |-> <<>> ] ],
        suggestions |-> <<>>, strengthAreas |-> <<>>, improvementAreas |-> <<>> ]

\* modules/rehearsal.ts generateRehearsalFeedback.  The durations are whole
\* seconds and the targets are not negative, so that
\* (variance / target) * 100 > 15 is 100 * variance > 15 * target (a target
\* of 0 gives Infinity, -Infinity or NaN, which compare the same way);
\* |variance| < targetTotal * 0.1 and n >= length * 0.7 are multiplied by 10.
generateRehearsalFeedback(session, outline) ==
  LET timed == SelectSeq(session.sections, LAMBDA s : s.actualDuration # <<>>)
      Status(s) ==
        LET variance == s.actualDuration[1] - s.targetDuration
        IN  IF 100 * variance > 15 * s.targetDuration THEN "too_slow"
            ELSE IF 100 * variance < -15 * s.targetDuration THEN "too_fast"
            ELSE "on_track"
      Suggestions(status) ==
        CASE status = "too_slow" ->
               << "Consider cutting some content or speaking more concisely",
                  "Identify non-essential points that could be shortened" >>
          [] status = "too_fast" ->
               << "You might be rushing - add pauses for emphasis",
                  "Consider adding more examples or elaboration" >>
          [] OTHER -> << "Good pacing - maintain this tempo" >>
      sectionFeedback ==
        [ i \in 1..Len(timed) |->
            [ sectionId |-> timed[i].sectionId,
              timingStatus |-> Status(timed[i]),
              suggestions |-> Suggestions(Status(timed[i])) ] ]
      totalActual == SumSeq([ i \in 1..Len(timed) |-> timed[i].actualDuration[1] ])
      targetTotal ==
        SumSeq([ i \in 1..Len(session.sections) |-> session.sections[i].targetDuration ])
      variance == totalActual - targetTotal
      calibrated == 10 * Abs(variance) < targetTotal
      onTrackSections == SelectSeq(sectionFeedback, LAMBDA s : s.timingStatus = "on_track")
      consistent == 10 * Len(onTrackSections) >= 7 * Len(sectionFeedback)
  IN  [ overallTiming |-> [ target |-> targetTotal, actual |-> totalActual,
                            variance |-> variance ],
        sectionFeedback |-> sectionFeedback,
        suggestions |->
          (IF calibrated THEN <<>>
           ELSE IF variance > 0
                THEN << "Practice the longest sections more to tighten delivery" >>
           ELSE << "Consider where you can elaborate or add stories" >>)
          \o (IF consistent THEN <<>>
              ELSE << "Work on evening out your delivery speed" >>),
        strengthAreas |->
          (IF calibrated THEN << "Overall timing is well-calibrated" >> ELSE <<>>)
          \o (IF consistent THEN << "Consistent pacing across sections" >> ELSE <<>>),
        improvementAreas |->
          (IF calibrated THEN <<>>
           ELSE IF variance > 0
                THEN << "Talk is running long - identify sections to trim" >>
           ELSE << "Talk is running short - add depth or examples" >>)
          \o (IF consistent THEN <<>>
              ELSE << "Pacing varies significantly between sections" >>) ]
(***************************************************************************)
(* Inputs of the coordinator's operations                                  *)
(***************************************************************************)
\* a string of n characters
RECURSIVE StringOfLength(_)
StringOfLength(n) ==
  IF n = 0 THEN ""
  ELSE IF n % 2 = 0 THEN LET half == StringOfLength(n \div 2) IN half \o half
  ELSE "x" \o StringOfLength(n - 1)

\* configInput values passed to initialize: one valid, three invalid
ConfigInputs ==
  { [ topic |-> "Building APIs with GraphQL", audience |-> "technical",
      duration |-> Number(30, 0), talkType |-> "technical_deep_dive",
      tone |-> "conversational", speakerName |-> "Jane Developer" ],
    [ topic |-> "AB" ],
    [ topic |-> "Valid Topic", duration |-> Number(150, 0) ],
    [ topic |-> StringOfLength(TopicMaxLength + 1), audience |-> "invalid" ] }

\* research values passed to setResearchResults
ResearchInputs ==
  { [ refinedTopic |-> "GraphQL APIs that scale",
      topicSuggestions |-> << "Schema-first design" >>,
      keyConcepts |-> << "GraphQL basics", "Schema design", "Resolvers", "Caching" >>,
      sources |-> <<>>,
      potentialBiases |-> <<>>,
      audienceConsiderations |-> << "Assume REST experience" >> ] }

\* the optional keyConcepts argument of generateOutline
KeyConceptsInputs ==
  { [ given |-> FALSE ],
    [ given |-> TRUE, value |-> << "GraphQL basics", "Schema design" >> ] }

Section(id, title, duration, order, type, keyPoints) ==
  [ id |-> id, title |-> title, duration |-> duration, order |-> order,
    type |-> type, keyPoints |-> keyPoints, notes |-> NoString ]

\* passes the timing validation, draws improvement suggestions
timedOutline ==
  [ title |-> "GraphQL in Practice",
    subtitle |-> NoString,
    totalDuration |-> 30,
    sections |->
      << Section("s-intro", "Why GraphQL", 3, 0, "intro",
                 << "The REST pain points", "What we will build" >>),
         Section("s-schema", "Schema Design", 14, 1, "main",
                 << "Types and fields", "Always version your schema",
                    "Nullability", "Pagination", "Naming" >>),
         Section("s-perf", "Performance", 8, 2, "main",
                 << "The only way to avoid over-fetching", "Batching" >>),
         Section("s-end", "Wrap-up", 3, 3, "conclusion", << "Key takeaways" >>),
         Section("s-qa", "Q&A", 2, 4, "qa", <<>>) >>,
    learningObjectives |-> << "Design a schema", "Measure resolvers" >>,
    callToAction |-> NoString ]

\* fails the timing validation: 24 of 30 minutes allocated, an intro of 20
mistimedOutline ==
  [ title |-> "GraphQL in a Hurry",
    subtitle |-> "Draft",
    totalDuration |-> 30,
    sections |->
      << Section("a", "Long Intro", 20, 0, "intro", << "Everything at once" >>),
         Section("b", "Body", 4, 1, "main", << "What is left" >>),
         Section("c", "Pause", 0, 2, "transition", <<>>) >>,
    learningObjectives |-> <<>>,
    callToAction |-> "Try it on Monday" ]

\* outline values passed to setOutline
OutlineInputs == { timedOutline, mistimedOutline }

ScriptSection(sectionId, title, content) ==
  [ sectionId |-> sectionId, title |-> title, content |-> content,
    transitions |-> [ in |-> NoString, out |-> NoString ],
    codeExamples |-> <<>>, anecdotes |-> <<>> ]

\* no issues; far too short for any configured duration (a suggestion)
writtenScript ==
  [ title |-> "GraphQL in Practice",
    introduction |-> Text(100, 18, 1),
    sections |-> << ScriptSection("s-schema", "Schema Design", Text(50, 9, 2)),
                    ScriptSection("s-perf", "Performance", Text(64, 11, 4)) >>,
    conclusion |-> Text(130, 22, 0),
    speakerNotes |-> <<>> ]

\* one issue: the introduction has 99 characters
shortIntroScript ==
  [ writtenScript EXCEPT !.introduction = Text(99, 18, 0) ]

\* one issue: a section body of 49 characters
thinSectionScript ==
  [ writtenScript EXCEPT !.sections[2].content = Text(49, 8, 0) ]

\* script values passed to setScript
ScriptInputs == { writtenScript, shortIntroScript, thinSectionScript }

Slide(order, layout, title, bulletPoints, speakerNotes, duration) ==
  [ id |-> "slide-" \o ToString(order), order |-> order, layout |-> layout,
    title |-> title, subtitle |-> NoString, content |-> NoString,
    bulletPoints |-> bulletPoints, imagePrompt |-> NoString,
    code |-> undefined, quote |-> undefined,
    speakerNotes |-> speakerNotes, duration |-> duration ]

Deck(title, slides) ==
  [ title |-> title, author |-> NoString, date |-> NoString,
    theme |-> DEFAULT_THEMES.minimal,
    slides |-> slides,
    metadata |-> [ totalSlides |-> Len(slides),
                   estimatedDuration |->
                     SumSeq([ i \in 1..Len(slides) |-> slides[i].duration ]),
                   generatedAt |-> NoString, version |-> "1.0.0" ] ]

\* validateSlideDeck: no warnings
cleanDeck ==
  Deck("GraphQL in Practice",
       << Slide(0, "title", "GraphQL in Practice", <<>>, "Welcome", 30),
          Slide(1, "bullet_points", "Schema Design",
                << "Types", "Fields", "Nullability" >>, "Go slowly", 120),
          Slide(2, "image_full", NoString, <<>>, "", 60) >>)

\* validateSlideDeck: one warning, a slide with seven bullet points
crowdedDeck ==
  Deck("GraphQL in Practice",
       << Slide(0, "title", "GraphQL in Practice", <<>>, "Welcome", 30),
          Slide(1, "bullet_points", "Everything",
                << "a", "b", "c", "d", "e", "f", "g" >>, "", 300) >>)

\* deck values passed to setSlides; the last one is a deck whose metadata
\* was not recomputed after a slide was removed
SlideDeckInputs ==
  { cleanDeck, crowdedDeck,
    [ cleanDeck EXCEPT !.slides = SubSeq(cleanDeck.slides, 1, 2) ] }

(***************************************************************************)
(* TalkPrepSkill, the workflow coordinator                                  *)
(***************************************************************************)
NoError == "<none>"
SessionNotInitialized == "Session not initialized"
OutlineRequiredForScript == "Outline required before generating script"
OutlineRequiredForSlides == "Outline required before generating slides"
OutlineRequired == "Outline required"

\* The outcome of a call on the session st: the session afterwards, the
\* message of the Error it threw (NoError if it returned), its return value
Throw(st, message) == [ state |-> st, threw |-> message, ret |-> undefined ]
Return(st, value) == [ state |-> st, threw |-> NoError, ret |-> value ]

\* !this.state
NoSession(st) == st = null

\* !this.state?.outline
NoOutline(st) == st = null \/ st.outline = undefined

\* completeStep pushing the step whether or not it is already there
completeStep_alwaysPushes(st, step) ==
  IF st # null
  THEN [ st EXCEPT !.completedSteps = Append(@, step) ]
  ELSE st

\* TalkPrepSkill.completeStep
completeStep(st, step) ==
  IF st # null /\ ~Includes(st.completedSteps, step)
  THEN [ st EXCEPT !.completedSteps = Append(@, step) ]
  ELSE st

\* initialize restarting the workflow of an existing session but keeping
\* what the session holds
initialize_keepsArtifacts(st, configInput) ==
  LET result == TalkConfigSchema_safeParse(configInput)
      fresh == [ currentStep |-> "ideation",
                 completedSteps |-> <<>>,
                 config |-> result.data,
                 research |-> undefined,
                 outline |-> undefined,
                 script |-> undefined,
                 slides |-> undefined,
                 qaPrep |-> undefined,
                 rehearsals |-> <<>> ]
      created == IF st = null THEN fresh
                 ELSE [ st EXCEPT !.currentStep = "ideation",
                                  !.completedSteps = <<>>,
                                  !.config = result.data ]
  IN  IF ~result.success
      THEN Return(st, [ success |-> FALSE,
                        error |-> "Invalid configuration: "
                                    \o Join(result.error.issues, ", ") ])
      ELSE Return(created, [ success |-> TRUE, state |-> created ])

\* initialize discarding the session when the configuration is refused
initialize_resetsOnFailure(st, configInput) ==
  LET result == TalkConfigSchema_safeParse(configInput)
      created == [ currentStep |-> "ideation",
                   completedSteps |-> <<>>,
                   config |-> result.data,
                   research |-> undefined,
                   outline |-> undefined,
                   script |-> undefined,
                   slides |-> undefined,
                   qaPrep |-> undefined,
                   rehearsals |-> <<>> ]
  IN  IF ~result.success
      THEN Return(null, [ success |-> FALSE,
                          error |-> "Invalid configuration: "
                                      \o Join(result.error.issues, ", ") ])
      ELSE Return(created, [ success |-> TRUE, state |-> created ])

\* TalkPrepSkill.initialize
initialize(st, configInput) ==
  LET result == TalkConfigSchema_safeParse(configInput)
      created == [ currentStep |-> "ideation",
                   completedSteps |-> <<>>,
                   config |-> result.data,
                   research |-> undefined,
                   outline |-> undefined,
                   script |-> undefined,
                   slides |-> undefined,
                   qaPrep |-> undefined,
                   rehearsals |-> <<>> ]
  IN  IF ~result.success
      THEN Return(st, [ success |-> FALSE,
                        error |-> "Invalid configuration: "
                                    \o Join(result.error.issues, ", ") ])
      ELSE Return(created, [ success |-> TRUE, state |-> created ])

\* TalkPrepSkill.getDiscoveryQuestions
getDiscoveryQuestions(st) ==
  IF NoSession(st) THEN Return(st, <<>>)
  ELSE Return(st, generateDiscoveryQuestions(st.config))

\* TalkPrepSkill.getTopicSuggestions
getTopicSuggestions(st) ==
  IF NoSession(st) THEN Return(st, <<>>)
  ELSE Return(st, suggestTopicRefinements(st.config.topic, st.config.talkType,
                                          st.config.duration))

\* setResearchResults without the completeStep('ideation') call
setResearchResults_stepNotCompleted(st, research) ==
  IF NoSession(st) THEN Throw(st, SessionNotInitialized)
  ELSE Return([ st EXCEPT !.research = research, !.currentStep = "outline" ],
              undefined)

\* TalkPrepSkill.setResearchResults
setResearchResults(st, research) ==
  IF NoSession(st) THEN Throw(st, SessionNotInitialized)
  ELSE Return([ completeStep([ st EXCEPT !.research = research ], "ideation")
                  EXCEPT !.currentStep = "outline" ],
              undefined)

\* generateOutline dropping the artifacts derived from the replaced outline
generateOutline_dropsDerivedArtifacts(st, keyConcepts) ==
  IF NoSession(st) THEN Throw(st, SessionNotInitialized)
  ELSE
    LET template == getTemplate(st.config.talkType)
        generated == generateOutlineFromTemplate(template, st.config.topic,
                                                 st.config.duration)
        outline ==
          IF st.research # undefined
          THEN [ generated EXCEPT
                   !.learningObjectives = Slice(st.research.keyConcepts, 0, 3) ]
          ELSE IF keyConcepts.given
          THEN [ generated EXCEPT !.learningObjectives = keyConcepts.value ]
          ELSE generated
    IN  Return([ st EXCEPT !.outline = outline, !.script = undefined,
                           !.slides = undefined, !.qaPrep = undefined ],
               outline)

\* TalkPrepSkill.generateOutline
generateOutline(st, keyConcepts) ==
  IF NoSession(st) THEN Throw(st, SessionNotInitialized)
  ELSE
    LET template == getTemplate(st.config.talkType)
        generated == generateOutlineFromTemplate(template, st.config.topic,
                                                 st.config.duration)
        outline ==
          IF st.research # undefined
          THEN [ generated EXCEPT
                   !.learningObjectives = Slice(st.research.keyConcepts, 0, 3) ]
          ELSE IF keyConcepts.given
          THEN [ generated EXCEPT !.learningObjectives = keyConcepts.value ]
          ELSE generated
    IN  Return([ st EXCEPT !.outline = outline ], outline)

\* setOutline gating on every returned warning, suggestions included
setOutline_gatedOnSuggestions(st, outline) ==
  IF NoSession(st) THEN Throw(st, SessionNotInitialized)
  ELSE
    LET stored == [ st EXCEPT !.outline = outline ]
        validation == validateOutlineTiming(outline)
        suggestions == suggestOutlineImprovements(outline)
        warnings == validation.warnings \o suggestions
    IN  Return(IF Len(warnings) = 0
               THEN [ completeStep(stored, "outline") EXCEPT !.currentStep = "content" ]
               ELSE stored,
               [ valid |-> validation.isValid, warnings |-> warnings ])

\* TalkPrepSkill.setOutline
setOutline(st, outline) ==
  IF NoSession(st) THEN Throw(st, SessionNotInitialized)
  ELSE
    LET stored == [ st EXCEPT !.outline = outline ]
        validation == validateOutlineTiming(outline)
        suggestions == suggestOutlineImprovements(outline)
    IN  Return(IF validation.isValid
               THEN [ completeStep(stored, "outline") EXCEPT !.currentStep = "content" ]
               ELSE stored,
               [ valid |-> validation.isValid,
                 warnings |-> validation.warnings \o suggestions ])

\* generateScript marking the content step complete
generateScript_completesContent(st) ==
  IF NoOutline(st) THEN Throw(st, OutlineRequiredForScript)
  ELSE LET script == createScriptTemplate(st.outline)
       IN  Return(completeStep([ st EXCEPT !.script = script ], "content"), script)

\* TalkPrepSkill.generateScript
generateScript(st) ==
  IF NoOutline(st) THEN Throw(st, OutlineRequiredForScript)
  ELSE LET script == createScriptTemplate(st.outline)
       IN  Return([ st EXCEPT !.script = script ], script)

\* TalkPrepSkill.setScript
setScript(st, script) ==
  IF NoSession(st) THEN Throw(st, SessionNotInitialized)
  ELSE
    LET stored == [ st EXCEPT !.script = script ]
        validation == validateContent(script, st.config)
    IN  Return(IF validation.isValid
               THEN [ completeStep(stored, "content") EXCEPT !.currentStep = "export" ]
               ELSE stored,
               [ valid |-> validation.isValid,
                 issues |-> validation.issues,
                 suggestions |-> validation.suggestions ])

\* TalkPrepSkill.generateSlides
generateSlides(st, now) ==
  IF NoOutline(st) THEN Throw(st, OutlineRequiredForSlides)
  ELSE LET slides == createSlideDeckTemplate(st.config, st.outline, now)
       IN  Return([ st EXCEPT !.slides = slides ], slides)

\* setSlides gating on the validation as setOutline and setScript do
setSlides_gatedOnValidation(st, slides) ==
  IF NoSession(st) THEN Throw(st, SessionNotInitialized)
  ELSE
    LET stored == [ st EXCEPT !.slides = slides ]
        validation == validateSlideDeck(slides, st.config)
    IN  Return(IF validation.isValid
               THEN [ completeStep(stored, "export") EXCEPT !.currentStep = "rehearsal" ]
               ELSE stored,
               [ valid |-> validation.isValid,
                 warnings |-> validation.warnings,
                 suggestions |-> validation.suggestions ])

\* TalkPrepSkill.setSlides
setSlides(st, slides) ==
  IF NoSession(st) THEN Throw(st, SessionNotInitialized)
  ELSE
    LET stored == [ st EXCEPT !.slides = slides ]
        validation == validateSlideDeck(slides, st.config)
    IN  Return([ completeStep(stored, "export") EXCEPT !.currentStep = "rehearsal" ],
               [ valid |-> validation.isValid,
                 warnings |-> validation.warnings,
                 suggestions |-> validation.suggestions ])

\* generateQAPrep guarding on the session only: without an outline
\* createQAPreparation reads outline.sections of undefined, a TypeError
generateQAPrep_sessionGuardOnly(st) ==
  IF NoSession(st) THEN Throw(st, SessionNotInitialized)
  ELSE IF st.outline = undefined
  THEN Throw(st, "Cannot read properties of undefined (reading 'sections')")
  ELSE LET qaPrep == createQAPreparation(st.config, st.outline)
       IN  Return([ st EXCEPT !.qaPrep = qaPrep ], qaPrep)

\* TalkPrepSkill.generateQAPrep
generateQAPrep(st) ==
  IF NoOutline(st) THEN Throw(st, OutlineRequired)
  ELSE LET qaPrep == createQAPreparation(st.config, st.outline)
       IN  Return([ st EXCEPT !.qaPrep = qaPrep ], qaPrep)

\* startRehearsal moving the session to the rehearsal step
startRehearsal_movesToRehearsal(st, now) ==
  IF NoOutline(st) THEN Throw(st, OutlineRequired)
  ELSE LET session == createRehearsalSession(st.outline, now)
       IN  Return([ completeStep([ st EXCEPT !.rehearsals = Append(@, session) ],
                                 "rehearsal")
                      EXCEPT !.currentStep = "rehearsal" ],
                  session.id)

\* TalkPrepSkill.startRehearsal
startRehearsal(st, now) ==
  IF NoOutline(st) THEN Throw(st, OutlineRequired)
  ELSE LET session == createRehearsalSession(st.outline, now)
       IN  Return(completeStep([ st EXCEPT !.rehearsals = Append(@, session) ],
                               "rehearsal"),
                  session.id)

\* TalkPrepSkill.getTimingCues
getTimingCues(st) ==
  IF NoOutline(st) THEN Throw(st, OutlineRequired)
  ELSE Return(st, generateTimingCues(st.outline))

\* TalkPrepSkill.getPracticeSuggestions
getPracticeSuggestions(st) ==
  IF NoSession(st) THEN Throw(st, SessionNotInitialized)
  ELSE Return(st, generatePracticeSuggestions(st.config))

(***************************************************************************)
(* The state machine: one action per public method                         *)
(***************************************************************************)
\* createTalkPrepSkill(): a new TalkPrepSkill, state = null, nothing called
Init ==
  /\ state = null
  /\ lastCall = [ op |-> "new", arg |-> undefined, threw |-> NoError,
                   ret |-> undefined ]
  /\ calls = 0

\* One call, while the instance has calls left: the session becomes the
\* outcome's, lastCall records the call
Call(op, arg, outcome) ==
  /\ calls < MaxCalls
  /\ calls' = calls + 1
  /\ state' = outcome.state
  /\ lastCall' = [ op |-> op, arg |-> arg, threw |-> outcome.threw,
                    ret |-> outcome.ret ]

Initialize ==
  \E configInput \in ConfigInputs :
    Call("initialize", configInput, initialize(state, configInput))

GetDiscoveryQuestions == Call("getDiscoveryQuestions", undefined, getDiscoveryQuestions(state))

GetTopicSuggestions == Call("getTopicSuggestions", undefined, getTopicSuggestions(state))

SetResearchResults ==
  \E research \in ResearchInputs :
    Call("setResearchResults", research, setResearchResults(state, research))

GenerateOutline ==
  \E keyConcepts \in KeyConceptsInputs :
    Call("generateOutline", keyConcepts, generateOutline(state, keyConcepts))

SetOutline ==
  \E outline \in OutlineInputs : Call("setOutline", outline, setOutline(state, outline))

GenerateScript == Call("generateScript", undefined, generateScript(state))

SetScript ==
  \E script \in ScriptInputs : Call("setScript", script, setScript(state, script))

GenerateSlides ==
  \E now \in Times : Call("generateSlides", undefined, generateSlides(state, now))

SetSlides ==
  \E slides \in SlideDeckInputs : Call("setSlides", slides, setSlides(state, slides))

GenerateQAPrep == Call("generateQAPrep", undefined, generateQAPrep(state))

\* the list of rehearsals is cut off at MaxRehearsals
StartRehearsal ==
  /\ state # null => Len(state.rehearsals) < MaxRehearsals
  /\ \E now \in Times : Call("startRehearsal", undefined, startRehearsal(state, now))

GetTimingCues == Call("getTimingCues", undefined, getTimingCues(state))

GetPracticeSuggestions ==
  Call("getPracticeSuggestions", undefined, getPracticeSuggestions(state))

Next ==
  \/ Initialize
  \/ GetDiscoveryQuestions
  \/ GetTopicSuggestions
  \/ SetResearchResults
  \/ GenerateOutline
  \/ SetOutline
  \/ GenerateScript
  \/ SetScript
  \/ GenerateSlides
  \/ SetSlides
  \/ GenerateQAPrep
  \/ StartRehearsal
  \/ GetTimingCues
  \/ GetPracticeSuggestions

Spec == Init /\ [][Next]_vars


(***************************************************************************)
(* Configuration validation on its own: a coordinator that is only ever    *)
(* initialized, with inputs on both sides of every bound of the schema     *)
(***************************************************************************)
MaxInitializations == 2

\* Inputs of initialize: a topic of 2, 3, 200 or 201 characters; no
\* duration or one of 4, 5, 120, 121, 7.5; audience and talkType absent,
\* valid or invalid; expertiseLevel and tone varied together.  An optional
\* key is absent (<<>>) or present (<<value>>).
ConfigCases ==
  LET Key(field, optional) ==
        IF optional = <<>> THEN <<>> ELSE field :> optional[1]
      TopicCases ==
        { StringOfLength(n) : n \in { TopicMinLength - 1, TopicMinLength,
                                      TopicMaxLength, TopicMaxLength + 1 } }
      DurationCases ==
        { <<>>, << Number(7, 5) >> } \cup
        { << Number(n, 0) >> : n \in { DurationMin - 1, DurationMin,
                                       DurationMax, DurationMax + 1 } }
      LevelAndToneCases ==
        { << <<>>, <<>> >>, << <<"expert">>, <<"formal">> >>,
          << <<"guru">>, <<>> >>, << <<>>, <<"casual">> >> }
  IN  { [ topic |-> topic ] @@ Key("audience", audience)
          @@ Key("duration", duration) @@ Key("talkType", talkType)
          @@ Key("expertiseLevel", levelAndTone[1])
          @@ Key("tone", levelAndTone[2]) :
          topic \in TopicCases,
          audience \in { <<>>, <<"business">>, <<"invalid">> },
          duration \in DurationCases,
          talkType \in { <<>>, <<"keynote">>, <<"webinar">> },
          levelAndTone \in LevelAndToneCases }

InitializeWithCase ==
  /\ calls < MaxInitializations
  /\ \E configInput \in ConfigCases :
       Call("initialize", configInput, initialize(state, configInput))

ConfigSpec == Init /\ [][InitializeWithCase]_vars

(***************************************************************************)
(* The exported functions on their own: each action applies one function   *)
(* of the library to an input drawn from a bounded set and records the     *)
(* call and its result in lastCall; no session is involved                 *)
(***************************************************************************)
MaxApplications == 1

GetTemplate ==
  \E talkType \in TalkType :
    /\ calls < MaxApplications
    /\ Call("getTemplate", talkType, Return(state, getTemplate(talkType)))

GenerateOutlineFromTemplate ==
  \E talkType \in TalkType, duration \in DurationMin..DurationMax :
    LET template == getTemplate(talkType)
        topic == "Building APIs with GraphQL"
    IN  /\ calls < MaxApplications
        /\ Call("generateOutlineFromTemplate",
                [ template |-> template, topic |-> topic, duration |-> duration ],
                Return(state, generateOutlineFromTemplate(template, topic, duration)))

\* sessions passed to updateSectionTiming: fresh, with a section under way,
\* with a section already timed, and with two sections of the same id
RehearsalSessionInputs ==
  LET freshSession == createRehearsalSession(timedOutline, 1)
      startedSession ==
        [ freshSession EXCEPT !.sections[2].status = "in_progress" ]
      timedSession == updateSectionTiming(freshSession, "s-intro", 170).result
      repeatedIdSession ==
        [ freshSession EXCEPT !.sections[2].sectionId = "dup",
                              !.sections[4].sectionId = "dup",
                              !.sections[4].status = "in_progress" ]
  IN  { freshSession, startedSession, timedSession, repeatedIdSession }

UpdateSectionTiming ==
  \E session \in RehearsalSessionInputs,
     sectionId \in { "s-intro", "s-schema", "s-qa", "dup", "unknown" },
     actualDuration \in { 0, 170, 840 } :
    /\ calls < MaxApplications
    /\ Call("updateSectionTiming",
            [ session |-> session, sectionId |-> sectionId,
              actualDuration |-> actualDuration ],
            Return(state, updateSectionTiming(session, sectionId, actualDuration)))

\* generateRehearsalFeedback on a session of an outline in which one section
\* or two sections in a row were timed (the others were not): each at 15%
\* under its target less a second, at 15% under, on target, at 15% over, or
\* at 15% over plus a second
GenerateRehearsalFeedback ==
  \E outline \in OutlineInputs :
    \E i \in 1..Len(outline.sections), j \in 1..Len(outline.sections),
       first \in { <<85, -1>>, <<85, 0>>, <<100, 0>>, <<115, 0>>, <<115, 1>> },
       second \in { <<85, -1>>, <<85, 0>>, <<100, 0>>, <<115, 0>>, <<115, 1>> } :
      LET fresh == createRehearsalSession(outline, 1)
          Actual(k, timing) ==
            (fresh.sections[k].targetDuration * timing[1]) \div 100 + timing[2]
          session ==
            updateSectionTiming(
              updateSectionTiming(fresh, fresh.sections[i].sectionId,
                                  Actual(i, first)).result,
              fresh.sections[j].sectionId, Actual(j, second)).result
      IN  /\ j \in { i, i + 1 }
          /\ i = j => first = second
          /\ calls < MaxApplications
          /\ Call("generateRehearsalFeedback",
                  [ session |-> session, outline |-> outline ],
                  Return(state, generateRehearsalFeedback(session, outline)))

\* validateOutlineTiming, twice, on an outline of 10 or 11 minutes with a
\* first section of 0, 1, 5 or 6 minutes of any of three types and a main
\* section of 0 to 9 minutes
ValidateOutlineTiming ==
  \E totalDuration \in { 10, 11 }, first \in { 0, 1, 5, 6 },
     type \in { "intro", "main", "transition" }, second \in 0..9 :
    LET outline ==
          [ title |-> "Two sections", subtitle |-> NoString,
            totalDuration |-> totalDuration,
            sections |-> << Section("a", "First", first, 0, type, <<>>),
                            Section("b", "Second", second, 1, "main", <<>>) >>,
            learningObjectives |-> <<>>, callToAction |-> NoString ]
    IN  /\ calls < MaxApplications
        /\ Call("validateOutlineTiming", outline,
                Return(state, [ first |-> validateOutlineTiming(outline),
                                second |-> validateOutlineTiming(outline) ]))

\* slide decks passed to the exports
DeckObjectInputs ==
  LET ThemeObject(name, type, primaryColor) ==
        Js("object", << Member("name", Js("string", name)), Member("type", Js("string", type)),
                    Member("primaryColor", Js("string", primaryColor)) >>)

      SlideObject(id, order, layout, title, speakerNotes, duration) ==
        Js("object", << Member("id", Js("string", id)), Member("order", Js("number", order)),
                    Member("layout", Js("string", layout)), Member("title", title),
                    Member("speakerNotes", Js("string", speakerNotes)),
                    Member("duration", Js("number", duration)) >>)

      DeckObject(title, slides) ==
        Js("object", << Member("title", Js("string", title)),
                    Member("author", Js("string", << "J", "a", "n", "e" >>)),
                    Member("theme", ThemeObject(<< "M", "i", "n", "i", "m", "a", "l" >>, << "m", "i", "n", "i", "m", "a", "l" >>, << "#", "0", "0", "0" >>)),
                    Member("slides", Js("array", slides)),
                    Member("metadata",
                           Js("object", << Member("totalSlides", Js("number", Len(slides))),
                                       Member("estimatedDuration", Js("number", 0)),
                                       Member("generatedAt", Js("string", << "2", "0", "2", "4", "-", "0", "1", "-", "0", "1" >>)),
                                       Member("version", Js("string", << "1", ".", "0", ".", "0" >>)) >>)) >>)

      \* three slides, the last one without a title and without notes
      plainDeckObject ==
        DeckObject(<< "G", "r", "a", "p", "h", "Q", "L", " ", " ", "I", "n", "\n", "P", "r", "a", "c", "t", "i", "c", "e" >>,
          << SlideObject(<< "s", "l", "i", "d", "e", "-", "0" >>, 0, << "t", "i", "t", "l", "e" >>, Js("string", << "G", "r", "a", "p", "h", "Q", "L" >>), << "W", "e", "l", "c", "o", "m", "e" >>, 30),
             Set(SlideObject(<< "s", "l", "i", "d", "e", "-", "1" >>, 1, << "b", "u", "l", "l", "e", "t", "_", "p", "o", "i", "n", "t", "s" >>, Js("string", << "S", "c", "h", "e", "m", "a" >>),
                             << "G", "o", " ", "s", "l", "o", "w", "l", "y" >>, 120),
                 "bulletPoints", Js("array", << Js("string", << "T", "y", "p", "e", "s" >>), Js("string", << "F", "i", "e", "l", "d", "s" >>) >>)),
             SlideObject(<< "s", "l", "i", "d", "e", "-", "2" >>, 2, << "i", "m", "a", "g", "e", "_", "f", "u", "l", "l" >>, JsUndefined, <<>>, 60) >>)

      \* every text of the deck carries characters that HTML gives a meaning to
      markupDeckObject ==
        DeckObject(<< "<", "/", "t", "i", "t", "l", "e", ">", "<", "s", "c", "r", "i", "p", "t", ">", "x", "<", "/", "s", "c", "r", "i", "p", "t", ">" >>,
          << Set(SlideObject(<< "s", "1" >>, 0, << "t", "i", "t", "l", "e" >>, Js("string", << "<", "s", "c", "r", "i", "p", "t", ">" >>), << "x", ">", "y" >>, 30),
                 "subtitle", Js("string", << "a", "&", "b" >>)),
             Set(Set(SlideObject(<< "s", "2" >>, 1, << "q", "u", "o", "t", "e" >>, Js("string", << "R", "&", "D" >>), << "<", "i", ">" >>, 60),
                     "quote", Js("object", << Member("text", Js("string", << "i", "t", "'", "s" >>)),
                                          Member("attribution", Js("string", << "<", "b", ">" >>)) >>)),
                 "content", Js("string", << "\"", "q", "\"" >>)),
             Set(Set(SlideObject(<< "s", "3" >>, 2, << "c", "o", "d", "e" >>, Js("string", << "&", "l", "t", ";" >>), <<>>, 60),
                     "code", Js("object", << Member("language", Js("string", << "t", "s" >>)),
                                         Member("code", Js("string", << "a", "<", "b" >>)) >>)),
                 "bulletPoints", Js("array", << Js("string", << "<", "l", "i", ">" >>) >>)) >>)

      \* ids with characters that JSON escapes, order fields that are not the
      \* positions
      shuffledDeckObject ==
        DeckObject(<< "S", "h", "u", "f", "f", "l", "e", "d" >>,
          << SlideObject(<< "a", "\"", "b" >>, 5, << "c", "o", "n", "t", "e", "n", "t" >>, Js("string", << "F", "i", "v", "e" >>), << "n" >>, 10),
             SlideObject(<< "c", "\\", "n" >>, -1, << "c", "o", "n", "t", "e", "n", "t" >>, Js("string", << "M", "i", "n", "u", "s", " ", "o", "n", "e" >>), <<>>, 20),
             SlideObject(<< "l", "i", "n", "e", "\n", "b", "r", "e", "a", "k" >>, 12, << "c", "o", "n", "t", "e", "n", "t" >>, Js("string", << "T", "w", "e", "l", "v", "e" >>), << "n" >>, 0),
             SlideObject(<< "a", "\"", "b" >>, 5, << "c", "o", "n", "t", "e", "n", "t" >>, Js("string", << "F", "i", "v", "e", " ", "a", "g", "a", "i", "n" >>), << "n" >>, 10) >>)

      emptyDeckObject == DeckObject(<< "E", "m", "p", "t", "y" >>, <<>>)
  IN  { plainDeckObject, markupDeckObject, shuffledDeckObject, emptyDeckObject }

ExportOptionsInputs ==
  [ includeNotes : BOOLEAN, includeTimings : BOOLEAN,
    theme : { JsUndefined, 
              Js("object", << Member("name", Js("string", << "T", "e", "c", "h" >>)),
                          Member("type", Js("string", << "t", "e", "c", "h" >>)),
                          Member("primaryColor",
                                 Js("string", << "#", "0", "e", "a", "5", "e", "9" >>)) >>) } ]

ExportToJson ==
  \E deck \in DeckObjectInputs, options \in ExportOptionsInputs :
    /\ calls < MaxApplications
    /\ Call("exportToJson", [ deck |-> deck, options |-> options ],
            Return(state, exportToJson(deck, options)))

ExportToHtml ==
  \E deck \in DeckObjectInputs, options \in ExportOptionsInputs :
    /\ calls < MaxApplications
    /\ Call("exportToHtml", [ deck |-> deck, options |-> options ],
            Return(state, exportToHtml(deck, options)))

\* configurations passed to createSlideDeckTemplate and createQAPreparation:
\* one with a speaker, one from the topic alone, one for each audience
ParsedConfigInputs ==
  { TalkConfigData(input) :
      input \in { [ topic |-> "Building APIs with GraphQL", audience |-> "technical",
                    speakerName |-> "Jane Developer" ],
                  [ topic |-> "Valid Topic" ] }
                \cup { [ topic |-> "Valid Topic", audience |-> audience ] :
                         audience \in AudienceType } }

\* outlines passed to them; longSectionOutline has nine key points in one
\* section, sections without minutes, a main section without key points and
\* no Q&A
SlideOutlineInputs ==
  LET longSectionOutline ==
        [ title |-> "Nine Points",
          subtitle |-> "A long section",
          totalDuration |-> 20,
          sections |->
            << Section("only", "Everything", 18, 0, "main",
                       << "p1", "p2", "p3", "p4", "p5", "p6", "p7", "p8", "p9" >>),
               Section("late", "No time left", 0, 1, "conclusion", << "p10" >>),
               Section("gap", "To be written", 2, 2, "main", <<>>),
               Section("more", "One more thing", 0, 3, "main", << "p11" >>) >>,
          learningObjectives |-> <<>>,
          callToAction |-> NoString ]
  IN  { timedOutline, mistimedOutline, longSectionOutline }
      \cup { generateOutlineFromTemplate(getTemplate(talkType), "Valid Topic",
                                         DefaultDuration) : talkType \in TalkType }

CreateSlideDeckTemplate ==
  \E config \in ParsedConfigInputs, outline \in SlideOutlineInputs, now \in Times :
    /\ calls < MaxApplications
    /\ Call("createSlideDeckTemplate", [ config |-> config, outline |-> outline ],
            Return(state, createSlideDeckTemplate(config, outline, now)))

CreateQAPreparation ==
  \E config \in ParsedConfigInputs, outline \in SlideOutlineInputs :
    /\ calls < MaxApplications
    /\ Call("createQAPreparation", [ config |-> config, outline |-> outline ],
            Return(state, createQAPreparation(config, outline)))

\* Runs of a coordinator, each with the arguments and the outcome of its
\* last call:
\*  generateAndSetOutline: a new coordinator initialized for a talk type and
\*    a duration, then generateOutline() and setOutline() with the outline it
\*    returned;
\*  reinitialize: initialize() on a coordinator whose session has got as far
\*    as `progress` (initialized, researched, outline set, artifacts
\*    generated, script set and rehearsal started), then the three generators
\*    that need an outline on what initialize left, and generateScript after
\*    a new generateOutline;
\*  setGeneratedScript: generateScript() and then setScript() with the
\*    skeleton it returned, on a session of each talk type, with or without
\*    research, whose outline was generated from the template or set by the
\*    caller (an outline without sections among them)
CoordinatorRuns ==
  [ generateAndSetOutline |->
      { LET configInput == [ topic |-> "Building APIs with GraphQL",
                             talkType |-> talkType,
                             duration |-> Number(duration, 0) ]
            created == initialize(null, configInput).state
            generated == generateOutline(created, [ given |-> FALSE ])
            stored == setOutline(generated.state, generated.ret)
        IN  [ arg |-> [ config |-> configInput, outline |-> generated.ret ],
              ret |-> [ result |-> stored.ret,
                        threw |-> stored.threw,
                        before |-> generated.state,
                        after |-> stored.state ] ] :
        talkType \in TalkType, duration \in DurationMin..DurationMax },
    reinitialize |->
      { LET first == CHOOSE c \in ConfigInputs : TalkConfigSchema_safeParse(c).success
            research == CHOOSE r \in ResearchInputs : TRUE
            initialized == initialize(null, first).state
            researched == setResearchResults(initialized, research).state
            outlined == setOutline(researched, outline).state
            generated == generateQAPrep(
                           generateSlides(generateScript(outlined).state, 1).state).state
            rehearsed == startRehearsal(setScript(generated, script).state, 1).state
            previous == << initialized, researched, outlined, generated,
                           rehearsed >>[progress]
            again == initialize(previous, configInput)
            outlinedAgain == generateOutline(again.state, [ given |-> FALSE ]).state
        IN  [ arg |-> [ previous |-> previous, configInput |-> configInput ],
              ret |-> [ result |-> again.ret,
                        session |-> again.state,
                        generateScript |-> generateScript(again.state).threw,
                        generateSlides |-> generateSlides(again.state, 1).threw,
                        generateQAPrep |-> generateQAPrep(again.state).threw,
                        generateScriptAfterOutline |->
                          generateScript(outlinedAgain).threw ] ] :
        configInput \in ConfigInputs \cup { [ topic |-> "Teaching GraphQL",
                                               talkType |-> "workshop",
                                               duration |-> Number(45, 0) ] },
        outline \in OutlineInputs, script \in ScriptInputs, progress \in 1..5 },
    setGeneratedScript |->
      UNION
        { LET initialized ==
                initialize(null, [ topic |-> "Building APIs with GraphQL",
                                   talkType |-> talkType,
                                   duration |-> Number(30, 0) ]).state
              research == CHOOSE r \in ResearchInputs : TRUE
              base == IF researched
                      THEN setResearchResults(initialized, research).state
                      ELSE initialized
              generatedOutline == generateOutline(base, [ given |-> FALSE ]).ret
              noSectionsOutline == [ generatedOutline EXCEPT !.sections = <<>> ]
          IN  { LET generated == generateScript(setOutline(base, outline).state)
                    stored == setScript(generated.state, generated.ret)
                IN  [ arg |-> [ outline |-> outline, script |-> generated.ret ],
                      ret |-> [ validation |->
                                  validateContent(generated.ret,
                                                  generated.state.config),
                                result |-> stored.ret,
                                before |-> generated.state,
                                after |-> stored.state ] ] :
                outline \in { generatedOutline, noSectionsOutline }
                              \cup OutlineInputs \cup SlideOutlineInputs } :
          talkType \in TalkType, researched \in BOOLEAN } ]

GenerateAndSetOutline ==
  \E run \in CoordinatorRuns.generateAndSetOutline :
    /\ calls < MaxApplications
    /\ Call("setOutline", run.arg, Return(state, run.ret))

Reinitialize ==
  \E run \in CoordinatorRuns.reinitialize :
    /\ calls < MaxApplications
    /\ Call("initialize", run.arg, Return(state, run.ret))

SetGeneratedScript ==
  \E run \in CoordinatorRuns.setGeneratedScript :
    /\ calls < MaxApplications
    /\ Call("setScript", run.arg, Return(state, run.ret))

FunctionsNext ==
  \/ GetTemplate
  \/ GenerateOutlineFromTemplate
  \/ UpdateSectionTiming
  \/ GenerateRehearsalFeedback
  \/ ValidateOutlineTiming
  \/ ExportToJson
  \/ ExportToHtml
  \/ CreateSlideDeckTemplate
  \/ CreateQAPreparation

FunctionsSpec == Init /\ [][FunctionsNext]_vars

\* A coordinator taken through one of the runs of CoordinatorRuns
RunsSpec ==
  Init /\ [][GenerateAndSetOutline \/ Reinitialize \/ SetGeneratedScript]_vars
(***************************************************************************)
(* Properties of the workflow                                              *)
(***************************************************************************)
\* the position of a step in ideation < outline < content < export < rehearsal
StepIndex(step) == CHOOSE i \in 1..Len(WorkflowStep) : WorkflowStep[i] = step

\* this step is a call of op on an initialized session
CalledOnSession(op) == state # null /\ lastCall'.op = op

\* completedSteps after the step is completedSteps before with `step` in it
StepCompleted(step) ==
  /\ Includes(state'.completedSteps, step)
  /\ state'.completedSteps =
       IF Includes(state.completedSteps, step) THEN state.completedSteps
       ELSE Append(state.completedSteps, step)

StepsUnchanged ==
  /\ state'.currentStep = state.currentStep
  /\ state'.completedSteps = state.completedSteps

\* the operations other than initialize
SessionOperations ==
  { "getDiscoveryQuestions", "getTopicSuggestions", "setResearchResults",
    "generateOutline", "setOutline", "generateScript", "setScript",
    "generateSlides", "setSlides", "generateQAPrep", "startRehearsal",
    "getTimingCues", "getPracticeSuggestions" }

\* C1: on an initialized session no operation other than initialize moves
\* currentStep to a step earlier in the order than the one it held before.
NoBackwardTransition ==
  [][ (state # null /\ lastCall'.op \in SessionOperations)
        => StepIndex(state'.currentStep) >= StepIndex(state.currentStep) ]_vars

\* C2: on an initialized session every operation other than initialize leaves
\* currentStep unchanged or advances it to the immediately following step.
NoSkippedStep ==
  [][ (state # null /\ lastCall'.op \in SessionOperations)
        => \/ state'.currentStep = state.currentStep
           \/ StepIndex(state'.currentStep) = StepIndex(state.currentStep) + 1 ]_vars

\* C3: a successful initialize leaves currentStep = ideation and no completed
\* steps, and once currentStep is rehearsal no operation other than
\* initialize changes it.
InitialStepAndTerminalRehearsal ==
  [][ /\ (lastCall'.op = "initialize" /\ lastCall'.ret.success)
           => (state'.currentStep = "ideation" /\ state'.completedSteps = <<>>)
      /\ (state # null /\ state.currentStep = "rehearsal"
            /\ lastCall'.op \in SessionOperations)
           => state'.currentStep = "rehearsal" ]_vars

\* C4: setOutline on an initialized session stores the outline and returns
\* valid = (validateOutlineTiming has no warnings); with no timing warning it
\* completes outline and moves to content, with one it leaves currentStep and
\* completedSteps as they were; improvement suggestions do not count.
SetOutlineGatesOnTimingOnly ==
  [][ CalledOnSession("setOutline") =>
        LET outline == lastCall'.arg
            timed == validateOutlineTiming(outline).warnings = <<>>
        IN  /\ lastCall'.threw = NoError
            /\ state'.outline = outline
            /\ lastCall'.ret.valid = timed
            /\ IF timed
               THEN state'.currentStep = "content" /\ StepCompleted("outline")
               ELSE StepsUnchanged ]_vars

\* C4 witness: a timed outline that drew suggestions was set and the session
\* moved to content
SetOutlineAdvancedDespiteSuggestions ==
  /\ lastCall.op = "setOutline"
  /\ lastCall.threw = NoError
  /\ lastCall.ret.valid
  /\ lastCall.ret.warnings # <<>>
  /\ state.outline = lastCall.arg
  /\ state.currentStep = "content"
  /\ Includes(state.completedSteps, "outline")

\* the conditions under which validateContent reports no issue
ScriptHasNoIssue(script) ==
  /\ script.introduction.length >= 100
  /\ script.conclusion.length >= 100
  /\ \A i \in 1..Len(script.sections) : script.sections[i].content.length >= 50

\* C5: setScript on an initialized session stores the script; it completes
\* content and moves to export exactly when the introduction and conclusion
\* have at least 100 characters and every section body at least 50, whatever
\* the suggestions; otherwise currentStep and completedSteps stay.
SetScriptGatesOnIssuesOnly ==
  [][ CalledOnSession("setScript") =>
        LET script == lastCall'.arg
            sound == ScriptHasNoIssue(script)
        IN  /\ lastCall'.threw = NoError
            /\ state'.script = script
            /\ lastCall'.ret.valid = sound
            /\ (lastCall'.ret.issues = <<>>) = sound
            /\ IF sound
               THEN state'.currentStep = "export" /\ StepCompleted("content")
               ELSE StepsUnchanged ]_vars

\* C5 witness: a script without issues but with a suggestion was set and the
\* session moved to export
SetScriptAdvancedDespiteSuggestions ==
  /\ lastCall.op = "setScript"
  /\ lastCall.threw = NoError
  /\ lastCall.ret.valid
  /\ lastCall.ret.suggestions # <<>>
  /\ state.script = lastCall.arg
  /\ state.currentStep = "export"
  /\ Includes(state.completedSteps, "content")

\* C6: setSlides on an initialized session stores the deck, completes export
\* and moves to rehearsal, whether or not validateSlideDeck returns warnings.
SetSlidesAlwaysAdvances ==
  [][ CalledOnSession("setSlides") =>
        /\ lastCall'.threw = NoError
        /\ state'.slides = lastCall'.arg
        /\ state'.currentStep = "rehearsal"
        /\ StepCompleted("export") ]_vars

\* C6 witness: a deck that validateSlideDeck warns about was set and the
\* session moved to rehearsal
SetSlidesAdvancedDespiteWarnings ==
  /\ lastCall.op = "setSlides"
  /\ lastCall.threw = NoError
  /\ ~lastCall.ret.valid
  /\ lastCall.ret.warnings # <<>>
  /\ state.slides = lastCall.arg
  /\ state.currentStep = "rehearsal"
  /\ Includes(state.completedSteps, "export")

\* C7: setResearchResults on an initialized session stores the research
\* result, completes ideation and moves to outline.
SetResearchResultsAdvances ==
  [][ CalledOnSession("setResearchResults") =>
        /\ lastCall'.threw = NoError
        /\ state'.research = lastCall'.arg
        /\ state'.currentStep = "outline"
        /\ StepCompleted("ideation") ]_vars

\* C7 witness: a research result was set on a session
ResearchResultsSet ==
  /\ lastCall.op = "setResearchResults"
  /\ lastCall.threw = NoError
  /\ state.research = lastCall.arg
  /\ state.currentStep = "outline"
  /\ state.completedSteps = << "ideation" >>

NoSessionAlwaysThrows ==
  [][ (state = null /\ lastCall'.op \in SessionOperations)
        => (lastCall'.threw = SessionNotInitialized /\ state' = null) ]_vars

\* the operations that need an outline
OutlineOperations ==
  { "generateScript", "generateSlides", "generateQAPrep", "startRehearsal",
    "getTimingCues" }

OutlineRequiredErrors ==
  { "Outline required before generating script",
    "Outline required before generating slides",
    "Outline required" }

\* C10: on an initialized session without an outline generateScript,
\* generateSlides, generateQAPrep, startRehearsal and getTimingCues fail with
\* the outline-required error and leave the whole session unchanged.
OutlineRequiredLeavesSession ==
  [][ (state # null /\ state.outline = undefined
         /\ lastCall'.op \in OutlineOperations)
        => (lastCall'.threw \in OutlineRequiredErrors /\ state' = state) ]_vars

\* C10 witness: a generator was refused on an initialized session that has
\* no outline
GeneratorRefusedWithoutOutline ==
  /\ state # null
  /\ state.outline = undefined
  /\ lastCall.op \in { "generateScript", "generateSlides", "generateQAPrep" }
  /\ lastCall.threw \in OutlineRequiredErrors


(***************************************************************************)
(* Configuration validation                                                *)
(***************************************************************************)
\* the enum fields of the configuration and their value sets
EnumFields ==
  [ audience |-> AudienceType, expertiseLevel |-> ExpertiseLevel,
    talkType |-> TalkType, tone |-> ToneType ]

\* the input breaks one of the bounds: topic length outside 3..200, a
\* duration that is not an integer in 5..120, an enum field outside its set
ViolatesBound(input) ==
  \/ Len(input.topic) < 3
  \/ Len(input.topic) > 200
  \/ /\ "duration" \in DOMAIN input
     /\ ~(input.duration.tenths = 0 /\ input.duration.whole \in 5..120)
  \/ \E field \in DOMAIN EnumFields :
       field \in DOMAIN input /\ input[field] \notin EnumFields[field]

\* a stored configuration within all the bounds
WithinBounds(config) ==
  /\ Len(config.topic) \in 3..200
  /\ config.duration \in 5..120
  /\ \A field \in DOMAIN EnumFields : config[field] \in EnumFields[field]

\* C11: initialize fails (success false, an error message, no state
\* returned) whenever its input breaks a bound, and the configuration of
\* every session that exists is within all the bounds
InvalidConfigRejected ==
  [][ /\ (lastCall'.op = "initialize" /\ ViolatesBound(lastCall'.arg))
         => /\ ~lastCall'.ret.success
            /\ "error" \in DOMAIN lastCall'.ret
            /\ lastCall'.ret.error # ""
            /\ "state" \notin DOMAIN lastCall'.ret
      /\ state' # null => WithinBounds(state'.config) ]_vars

\* C11 witness: on a live session, initialize refused an input whose only
\* fault is a fractional duration inside 5..120
FractionalDurationRejected ==
  /\ state # null
  /\ lastCall.op = "initialize"
  /\ "duration" \in DOMAIN lastCall.arg
  /\ lastCall.arg.duration.tenths # 0
  /\ lastCall.arg.duration.whole \in 5..119
  /\ ~ViolatesBound([ f \in DOMAIN lastCall.arg \ {"duration"} |-> lastCall.arg[f] ])
  /\ ~lastCall.ret.success

\* C12: initialize with a valid topic and no other field succeeds and stores
\* audience general, duration 30, expertiseLevel intermediate, talkType
\* technical_deep_dive and tone conversational; every field that is supplied
\* and valid is stored as supplied
DefaultsFillOmittedFields ==
  [][ (lastCall'.op = "initialize" /\ ~ViolatesBound(lastCall'.arg))
      => LET input == lastCall'.arg
             config == state'.config
         IN  /\ lastCall'.ret.success
             /\ DOMAIN input = {"topic"}
                  => /\ config.audience = "general"
                     /\ config.duration = 30
                     /\ config.expertiseLevel = "intermediate"
                     /\ config.talkType = "technical_deep_dive"
                     /\ config.tone = "conversational"
             /\ \A field \in DOMAIN input :
                  config[field] = IF field = "duration" THEN input.duration.whole
                                  ELSE input[field] ]_vars

\* C12 witness: a session created from a topic alone
InitializedFromTopicAlone ==
  /\ lastCall.op = "initialize"
  /\ DOMAIN lastCall.arg = {"topic"}
  /\ lastCall.ret.success
  /\ state.config.duration = 30

(***************************************************************************)
(* Templates                                                               *)
(***************************************************************************)
\* C13: for each of the five talk types the durationPercent values of the
\* sections of getTemplate(talkType) sum to exactly 100
TemplatePercentagesSumTo100 ==
  lastCall.op = "getTemplate"
    => LET structure == lastCall.ret.structure
       IN  SumSeq([ i \in 1..Len(structure) |-> structure[i].durationPercent ]) = 100

\* C13 witness: the template of the workshop, the one with the most sections
WorkshopTemplateFetched ==
  /\ lastCall.op = "getTemplate"
  /\ lastCall.arg = "workshop"
  /\ Len(lastCall.ret.structure) > 5

\* C14: for every template and every integer duration D in 5..120 the
\* outline generated from the template has totalDuration D and one section
\* per template section, in template order; section i has id section-i,
\* order i and the duration round(percent_i / 100 * D), halves rounding up,
\* whatever the durations then add up to
OutlineFollowsTemplate ==
  lastCall.op = "generateOutlineFromTemplate"
    => LET structure == lastCall.arg.template.structure
           D == lastCall.arg.duration
           outline == lastCall.ret
       IN  /\ outline.totalDuration = D
           /\ Len(outline.sections) = Len(structure)
           /\ \A i \in 1..Len(structure) :
                LET section == outline.sections[i]
                    exact == structure[i].durationPercent * D
                IN  /\ section.id = "section-" \o ToString(i - 1)
                    /\ section.order = i - 1
                    /\ section.title = structure[i].title
                    /\ section.type = structure[i].type
                    /\ 200 * section.duration - 100 <= 2 * exact
                    /\ 2 * exact < 200 * section.duration + 100

\* C14 witness: an outline whose rounded durations add up to more than the
\* duration asked for
RoundedDurationsExceedTotal ==
  /\ lastCall.op = "generateOutlineFromTemplate"
  /\ SumSeq([ i \in 1..Len(lastCall.ret.sections) |->
                lastCall.ret.sections[i].duration ]) > lastCall.arg.duration

(***************************************************************************)
(* Rehearsal timing                                                        *)
(***************************************************************************)
\* C15: updateSectionTiming(session, id, actual) returns a session with as
\* many timing records as the input, in the same order; a record whose
\* sectionId differs from id is the input record, a record whose sectionId
\* is id has actualDuration actual and status completed; the session that
\* was passed is not modified; with an id that matches no record the
\* returned section list is the input list
UpdateSectionTimingTouchesOnlyTarget ==
  lastCall.op = "updateSectionTiming"
    => LET before == lastCall.arg.session.sections
           after == lastCall.ret.result.sections
           id == lastCall.arg.sectionId
       IN  /\ Len(after) = Len(before)
           /\ \A i \in 1..Len(before) :
                /\ after[i].sectionId = before[i].sectionId
                /\ after[i].targetDuration = before[i].targetDuration
                /\ before[i].sectionId # id => after[i] = before[i]
                /\ before[i].sectionId = id
                     => /\ after[i].actualDuration = << lastCall.arg.actualDuration >>
                        /\ after[i].status = "completed"
           /\ lastCall.ret.argument = lastCall.arg.session
           /\ (\A i \in 1..Len(before) : before[i].sectionId # id) => after = before

\* C15 witness: one section of a session with other sections was timed
OneSectionTimed ==
  /\ lastCall.op = "updateSectionTiming"
  /\ \E i, j \in 1..Len(lastCall.arg.session.sections) :
       /\ lastCall.arg.session.sections[i].sectionId = lastCall.arg.sectionId
       /\ lastCall.arg.session.sections[i].status # "completed"
       /\ lastCall.ret.result.sections[i].status = "completed"
       /\ lastCall.arg.session.sections[j].sectionId # lastCall.arg.sectionId
       /\ lastCall.ret.result.sections[j].status = "in_progress"

(***************************************************************************)
(* Export                                                                  *)
(***************************************************************************)
\* C16: for every slide deck and every combination of includeNotes and
\* includeTimings, parsing the content of the json export gives a deck
\* with as many slides as the source deck, in the same order: the same id
\* and the same order field at every position
JsonRoundTripKeepsSlides ==
  lastCall.op = "exportToJson"
    => LET source == Get(lastCall.arg.deck, "slides").data
           parsed == Get(JsonParse(lastCall.ret.content), "slides")
       IN  /\ parsed.type = "array"
           /\ Len(parsed.data) = Len(source)
           /\ \A i \in 1..Len(source) :
                /\ Get(parsed.data[i], "id") = Get(source[i], "id")
                /\ Get(parsed.data[i], "order") = Get(source[i], "order")

\* C16 witness: a deck with a slide without notes, exported with the notes
\* and without the timings, came back with its slides
DeckWithBareSlideRoundTripped ==
  /\ lastCall.op = "exportToJson"
  /\ lastCall.arg.options.includeNotes
  /\ ~lastCall.arg.options.includeTimings
  /\ \E i \in 1..Len(Get(lastCall.arg.deck, "slides").data) :
       ~Truthy(Get(Get(lastCall.arg.deck, "slides").data[i], "speakerNotes"))
  /\ Len(Get(JsonParse(lastCall.ret.content), "slides").data) > 2
  /\ \E i \in 1..Len(lastCall.ret.content) :
       /\ lastCall.ret.content[i].t = "string"
       /\ \E k \in 1..Len(lastCall.ret.content[i].text) :
            lastCall.ret.content[i].text[k] = "\\"

\* the texts of a deck that its user supplies, by the expression that
\* the HTML export interpolates
UserTextSources ==
  { "deck.title", "slide.title", "slide.subtitle", "slide.content",
    "slide.bulletPoints", "slide.code.code", "slide.quote.text",
    "slide.quote.attribution", "slide.speakerNotes" }

\* the text holds none of the characters < > " ' and no & but the one that
\* starts an entity
EntityEscaped(text) ==
  \A k \in 1..Len(text) :
    /\ text[k] \notin { "<", ">", "\"", "'" }
    /\ text[k] = "&"
         => \E entity \in { << "&", "a", "m", "p", ";" >>, << "&", "l", "t", ";" >>, << "&", "g", "t", ";" >>, << "&", "q", "u", "o", "t", ";" >>, << "&", "#", "0", "3", "9", ";" >> } :
              /\ k + Len(entity) - 1 <= Len(text)
              /\ SubSeq(text, k, k + Len(entity) - 1) = entity

\* C17: in the HTML export every user-supplied text (the deck title, each
\* slide's title, subtitle, body, bullet points, code, quote text,
\* attribution and speaker notes) appears in entity-escaped form only: a
\* title holding <script> is nowhere in the document as a raw <script>
HtmlExportEscapesUserText ==
  lastCall.op = "exportToHtml"
    => \A i \in 1..Len(lastCall.ret.content) :
         LET piece == lastCall.ret.content[i]
         IN  (piece.kind = "value" /\ piece.source \in UserTextSources)
               => EntityEscaped(piece.text)

(***************************************************************************)
(* Slide decks                                                             *)
(***************************************************************************)
\* the position after the run of bullet_points slides that starts at pos
RECURSIVE RunEnd(_, _)
RunEnd(slides, pos) ==
  IF pos <= Len(slides) /\ slides[pos].layout = "bullet_points"
  THEN RunEnd(slides, pos + 1) ELSE pos

\* The slides from pos on begin with the blocks of the sections from k on:
\* a section_header slide, then bullet_points slides that split the key
\* points of the section, in order, into groups of 1 to 4.  The value is the
\* position after the last block, 0 when the slides do not fit.
RECURSIVE BlocksEnd(_, _, _, _)
BlocksEnd(slides, pos, sections, k) ==
  IF k > Len(sections) THEN pos
  ELSE IF pos > Len(slides) \/ slides[pos].layout # "section_header"
          \/ slides[pos].title # sections[k].title
  THEN 0
  ELSE LET end == RunEnd(slides, pos + 1)
           groups == [ i \in 1..(end - pos - 1) |-> slides[pos + i].bulletPoints ]
       IN  IF /\ \A i \in 1..Len(groups) : Len(groups[i]) \in 1..4
              /\ Flatten(groups) = sections[k].keyPoints
           THEN BlocksEnd(slides, end, sections, k + 1)
           ELSE 0

\* C18: createSlideDeckTemplate lays the slides out as: the title slide; for
\* each section of the outline, in order, a section_header slide followed by
\* bullet_points slides that split its key points in order, 1 to 4 to a
\* slide (none for a section without key points); a qa slide exactly when a
\* section has type qa; the closing Thank You title slide.  The order field
\* of each slide is its position, counted from 0.
SlidesFollowOutline ==
  lastCall.op = "createSlideDeckTemplate"
    => LET slides == lastCall.ret.slides
           outline == lastCall.arg.outline
           hasQa == \E k \in 1..Len(outline.sections) : outline.sections[k].type = "qa"
           end == BlocksEnd(slides, 2, outline.sections, 1)
       IN  /\ slides[1].layout = "title"
           /\ slides[1].title = outline.title
           /\ end # 0
           /\ Len(slides) = IF hasQa THEN end + 1 ELSE end
           /\ hasQa => slides[end].layout = "qa"
           /\ slides[Len(slides)].layout = "title"
           /\ slides[Len(slides)].title = "Thank You"
           /\ \A i \in 1..Len(slides) : slides[i].order = i - 1

\* C18 witness: a deck with a section split over two slides, a section
\* without content slides and a qa slide
DeckWithSplitSectionAndQa ==
  /\ lastCall.op = "createSlideDeckTemplate"
  /\ \E i \in 1..Len(lastCall.ret.slides) - 2 :
       /\ lastCall.ret.slides[i].layout = "bullet_points"
       /\ Len(lastCall.ret.slides[i].bulletPoints) = 4
       /\ lastCall.ret.slides[i + 1].layout = "bullet_points"
       /\ Len(lastCall.ret.slides[i + 1].bulletPoints) = 1
  /\ \E i \in 1..Len(lastCall.ret.slides) - 1 :
       /\ lastCall.ret.slides[i].layout = "section_header"
       /\ lastCall.ret.slides[i + 1].layout = "qa"

\* C19: whenever the session holds a slide deck, stored by generateSlides or
\* by setSlides, the deck's metadata.totalSlides is the number of its slides
\* and its metadata.estimatedDuration the sum of their durations
StoredDeckMetadataDerived ==
  (state # null /\ state.slides # undefined)
    => /\ state.slides.metadata.totalSlides = Len(state.slides.slides)
       /\ state.slides.metadata.estimatedDuration
            = SumSeq([ i \in 1..Len(state.slides.slides) |->
                         state.slides.slides[i].duration ])

(***************************************************************************)
(* Q&A preparation                                                         *)
(***************************************************************************)
\* C20: the questions of createQAPreparation have the ids q-1, q-2, ..., q-n
\* in list order, without gap or repeat: first the 5 generic questions,
\* then the 2 questions of the configured audience, then one question for
\* each main section with at least one key point, in section order; n is 7
\* plus the number of such sections, and the prepared responses are empty
QuestionIdsSequential ==
  lastCall.op = "createQAPreparation"
    => LET questions == lastCall.ret.anticipatedQuestions
           sections == lastCall.arg.outline.sections
           asked == SelectSeq(sections,
                              LAMBDA s : s.type = "main" /\ Len(s.keyPoints) >= 1)
           ofAudience == audienceQuestions[lastCall.arg.config.audience]
       IN  /\ Len(questions) = 7 + Len(asked)
           /\ \A i \in 1..Len(questions) : questions[i].id = "q-" \o ToString(i)
           /\ Len(genericQuestions) = 5
           /\ \A i \in 1..5 : questions[i].question = genericQuestions[i].question
           /\ Len(ofAudience) = 2
           /\ \A i \in 1..2 : questions[5 + i].question = ofAudience[i].question
           /\ \A i \in 1..Len(asked) :
                /\ questions[7 + i].category = "expansion"
                /\ questions[7 + i].question
                     = "Can you tell us more about \"" \o asked[i].keyPoints[1] \o "\"?"
           /\ lastCall.ret.preparedResponses = <<>>

\* C20 witness: nine questions, the last two on the first and the last of
\* three main sections, the one between them having no key point
SectionWithoutKeyPointSkipped ==
  /\ lastCall.op = "createQAPreparation"
  /\ Len(lastCall.ret.anticipatedQuestions) = 9
  /\ lastCall.ret.anticipatedQuestions[9].id = "q-9"
  /\ \E i, j, k \in 1..Len(lastCall.arg.outline.sections) :
       LET sections == lastCall.arg.outline.sections
       IN  /\ i < j /\ j < k
           /\ sections[i].type = "main" /\ sections[i].keyPoints # <<>>
           /\ sections[j].type = "main" /\ sections[j].keyPoints = <<>>
           /\ sections[k].type = "main" /\ sections[k].keyPoints # <<>>

\* C21: generateRehearsalFeedback returns one section-feedback entry for
\* each timing record that has an actual duration, in order, and none for
\* the others; for a positive target the entry is too_slow when the actual
\* duration is more than 15% over the target, too_fast when it is more than
\* 15% under, and on_track otherwise, the two boundaries included
FeedbackClassifiesTimedSections ==
  lastCall.op = "generateRehearsalFeedback"
    => LET timed == SelectSeq(lastCall.arg.session.sections,
                              LAMBDA s : s.actualDuration # <<>>)
           feedback == lastCall.ret.sectionFeedback
       IN  /\ Len(feedback) = Len(timed)
           /\ \A k \in 1..Len(timed) :
                LET target == timed[k].targetDuration
                    actual == timed[k].actualDuration[1]
                IN  /\ feedback[k].sectionId = timed[k].sectionId
                    /\ target > 0
                         => /\ feedback[k].timingStatus = "too_slow"
                                 <=> 100 * (actual - target) > 15 * target
                            /\ feedback[k].timingStatus = "too_fast"
                                 <=> 100 * (actual - target) < -15 * target
                            /\ feedback[k].timingStatus
                                 \in { "too_slow", "too_fast", "on_track" }

\* a session with sections left untimed, one section exactly 15% over its
\* target and one exactly 15% under, both reported on_track
BoundarySectionsOnTrack ==
  /\ lastCall.op = "generateRehearsalFeedback"
  /\ Len(lastCall.ret.sectionFeedback) = 2
  /\ Len(lastCall.arg.session.sections) > 2
  /\ \A k \in 1..2 : lastCall.ret.sectionFeedback[k].timingStatus = "on_track"
  /\ \E s \in { lastCall.arg.session.sections[k] :
                  k \in 1..Len(lastCall.arg.session.sections) } :
       /\ s.actualDuration # <<>> /\ s.targetDuration > 0
       /\ 100 * s.actualDuration[1] = 115 * s.targetDuration
  /\ \E s \in { lastCall.arg.session.sections[k] :
                  k \in 1..Len(lastCall.arg.session.sections) } :
       /\ s.actualDuration # <<>> /\ s.targetDuration > 0
       /\ 100 * s.actualDuration[1] = 85 * s.targetDuration

ContentSlidesShareSectionSeconds ==
  lastCall.op = "createSlideDeckTemplate"
    => LET outline == lastCall.arg.outline
           slides == lastCall.ret.slides
       IN  \A i \in 1..Len(outline.sections) :
             LET section == outline.sections[i]
                 content == SelectSeq(slides,
                                      LAMBDA s : /\ s.layout = "bullet_points"
                                                 /\ s.title = section.title)
             IN  section.keyPoints # <<>>
                   => /\ Len(content) > 0
                      /\ \A k \in 1..Len(content) :
                           content[k].duration * Len(content) = section.duration * 60

\* C24: generateOutline and setOutline on a session that holds a script, a
\* slide deck or a Q&A preparation succeed and leave the script, slides and
\* qaPrep slots exactly as they were
OutlineReplacementKeepsDerivedArtifacts ==
  [][ ( /\ state # null
        /\ lastCall'.op \in { "generateOutline", "setOutline" }
        /\ \/ state.script # undefined
           \/ state.slides # undefined
           \/ state.qaPrep # undefined )
        => /\ lastCall'.threw = NoError
           /\ state'.script = state.script
           /\ state'.slides = state.slides
           /\ state'.qaPrep = state.qaPrep ]_vars

\* C24 witness: the outline was just replaced by another one while the
\* session holds a script, a deck and a Q&A preparation; the preparation is
\* stale, it is not the one the new outline would give
StaleArtifactsAfterOutlineReplacement ==
  /\ state # null
  /\ lastCall.op \in { "generateOutline", "setOutline" }
  /\ lastCall.threw = NoError
  /\ state.script # undefined
  /\ state.slides # undefined
  /\ state.qaPrep # undefined
  /\ state.qaPrep # createQAPreparation(state.config, state.outline)

\* C25: for every talk type and every whole duration from 5 to 120 minutes
\* the outline generateOutline builds from the type's template has no timing
\* warning (allocated minutes within 2 of the duration, no section under a
\* minute, no section other than main over half the duration), and
\* setOutline with it returns valid, completes outline and moves to content
GeneratedOutlinePassesTimingCheck ==
  (lastCall.op = "setOutline" /\ lastCall.arg.config.talkType \in TalkType)
    => LET outline == lastCall.arg.outline
           timing == validateOutlineTiming(outline)
           sections == outline.sections
       IN  /\ outline.totalDuration \in DurationMin..DurationMax
           /\ timing.isValid
           /\ timing.warnings = <<>>
           /\ Abs(outline.totalDuration - SumSeq([ i \in 1..Len(sections) |->
                                                     sections[i].duration ])) <= 2
           /\ \A i \in 1..Len(sections) :
                /\ sections[i].duration >= 1
                /\ sections[i].type # "main"
                     => 2 * sections[i].duration <= outline.totalDuration
           /\ lastCall.ret.threw = NoError
           /\ lastCall.ret.result.valid
           /\ lastCall.ret.before.currentStep = "ideation"
           /\ lastCall.ret.after.outline = outline
           /\ lastCall.ret.after.currentStep = "content"
           /\ Includes(lastCall.ret.after.completedSteps, "outline")

\* C25 witness: the generated outline of a 5-minute workshop, whose seven
\* sections of a minute each are 2 minutes over the duration, was accepted
ShortWorkshopOutlineAccepted ==
  /\ lastCall.op = "setOutline"
  /\ lastCall.arg.config.talkType = "workshop"
  /\ lastCall.arg.outline.totalDuration = 5
  /\ TotalAllocated(lastCall.arg.outline) = 7
  /\ lastCall.ret.result.valid
  /\ lastCall.ret.after.currentStep = "content"

\* C26: in every session, unless currentStep is ideation the step just
\* before currentStep in ideation, outline, content, export, rehearsal is in
\* completedSteps, and no step occurs twice in completedSteps
PredecessorCompletedAndNoDuplicates ==
  state # null
    => /\ state.currentStep # "ideation"
            => Includes(state.completedSteps,
                        WorkflowStep[StepIndex(state.currentStep) - 1])
       /\ \A i, j \in 1..Len(state.completedSteps) :
            state.completedSteps[i] = state.completedSteps[j] => i = j

\* C26 witness: setResearchResults ran again on a session that had completed
\* ideation and another step after it, and currentStep is past ideation
IdeationCompletedOnceAfterRepeat ==
  /\ state # null
  /\ lastCall.op = "setResearchResults"
  /\ state.currentStep = "outline"
  /\ Len(state.completedSteps) >= 2
  /\ state.completedSteps[1] = "ideation"

\* C27: generateOutline, generateScript, generateSlides and generateQAPrep
\* write only their own slot (outline, script, slides, qaPrep): a call that
\* fails leaves the coordinator as it was, a call that succeeds stores what
\* it returns in its slot and leaves currentStep, completedSteps, config,
\* research, rehearsals and the other artifact slots unchanged
GeneratorsWriteOnlyTheirSlot ==
  [][ \A generator \in { << "generateOutline", "outline" >>,
                         << "generateScript", "script" >>,
                         << "generateSlides", "slides" >>,
                         << "generateQAPrep", "qaPrep" >> } :
        lastCall'.op = generator[1]
          => IF lastCall'.threw # NoError \/ state = null
             THEN lastCall'.threw # NoError /\ state' = state
             ELSE /\ state'[generator[2]] = lastCall'.ret
                  /\ state' = [ state EXCEPT ![generator[2]] = lastCall'.ret ] ]_vars

\* C27 witness: generateScript succeeded on a session past the ideation
\* step that holds a deck and a rehearsal
ScriptGeneratedBesideOtherArtifacts ==
  /\ state # null
  /\ lastCall.op = "generateScript"
  /\ lastCall.threw = NoError
  /\ state.script = lastCall.ret
  /\ state.slides # undefined
  /\ state.rehearsals # <<>>
  /\ state.currentStep # "ideation"
  /\ state.completedSteps # <<>>

\* C28: initialize with a configuration the schema refuses, on a coordinator
\* that holds a session, returns success = false and leaves the session as it
\* was: configuration, currentStep, completedSteps, artifacts and rehearsals
FailedInitializeKeepsSession ==
  [][ ( /\ state # null
        /\ lastCall'.op = "initialize"
        /\ ~TalkConfigSchema_safeParse(lastCall'.arg).success )
        => /\ lastCall'.threw = NoError
           /\ ~lastCall'.ret.success
           /\ state' = state ]_vars

\* C28 witness: a refused initialize on a session that is past ideation and
\* holds an outline, a script and a rehearsal, all still there
SessionSurvivesRefusedInitialize ==
  /\ state # null
  /\ lastCall.op = "initialize"
  /\ ~lastCall.ret.success
  /\ state.currentStep # "ideation"
  /\ state.outline # undefined
  /\ state.script # undefined
  /\ state.rehearsals # <<>>

\* C29: a successful initialize on a coordinator that holds a session leaves
\* a fresh session of the new configuration: currentStep ideation, no
\* completed step, no rehearsal, no research, outline, script, slides or
\* qaPrep; generateScript, generateSlides and generateQAPrep then fail for
\* want of an outline, and generateScript works again after generateOutline
SuccessfulInitializeStartsAfresh ==
  (lastCall.op = "initialize" /\ lastCall.ret.result.success)
    => LET session == lastCall.ret.session
       IN  /\ lastCall.arg.previous # null
           /\ session = [ currentStep |-> "ideation",
                          completedSteps |-> <<>>,
                          config |-> TalkConfigSchema_safeParse(
                                       lastCall.arg.configInput).data,
                          research |-> undefined,
                          outline |-> undefined,
                          script |-> undefined,
                          slides |-> undefined,
                          qaPrep |-> undefined,
                          rehearsals |-> <<>> ]
           /\ lastCall.ret.result.state = session
           /\ lastCall.ret.generateScript = OutlineRequiredForScript
           /\ lastCall.ret.generateSlides = OutlineRequiredForSlides
           /\ lastCall.ret.generateQAPrep = OutlineRequired
           /\ lastCall.ret.generateScriptAfterOutline = NoError

\* C29 witness: a session at the export step with every artifact and a
\* rehearsal was replaced by a fresh one of another configuration
FullSessionReplacedByFreshOne ==
  /\ lastCall.op = "initialize"
  /\ lastCall.ret.result.success
  /\ lastCall.arg.previous.currentStep = "export"
  /\ lastCall.arg.previous.outline # undefined
  /\ lastCall.arg.previous.script # undefined
  /\ lastCall.arg.previous.slides # undefined
  /\ lastCall.arg.previous.qaPrep # undefined
  /\ lastCall.arg.previous.research # undefined
  /\ lastCall.arg.previous.rehearsals # <<>>
  /\ lastCall.ret.session.config # lastCall.arg.previous.config
  /\ lastCall.ret.session.outline = undefined
  /\ lastCall.ret.session.rehearsals = <<>>

\* C30: the skeleton generateScript returns has an empty introduction, an
\* empty conclusion and empty section bodies whatever the outline, so
\* validateContent reports it invalid; setScript with it returns valid =
\* false, stores it and leaves currentStep and completedSteps as they were
GeneratedSkeletonIsNeverValid ==
  lastCall.op = "setScript"
    => LET script == lastCall.arg.script
       IN  /\ script = createScriptTemplate(lastCall.arg.outline)
           /\ script.introduction = EmptyText
           /\ script.conclusion = EmptyText
           /\ \A i \in 1..Len(script.sections) :
                script.sections[i].content = EmptyText
           /\ ~lastCall.ret.validation.isValid
           /\ Len(lastCall.ret.validation.issues) = 2 + Len(script.sections)
           /\ ~lastCall.ret.result.valid
           /\ lastCall.ret.result.issues = lastCall.ret.validation.issues
           /\ lastCall.ret.before.script = script
           /\ lastCall.ret.after = lastCall.ret.before
           /\ lastCall.ret.after.currentStep = lastCall.ret.before.currentStep
           /\ lastCall.ret.after.completedSteps = lastCall.ret.before.completedSteps

\* C30 witness: on a session at the content step, where a valid script
\* would move on to export, the skeleton of the generated outline was
\* refused and the session stayed at content
SkeletonRefusedAtContentStep ==
  /\ lastCall.op = "setScript"
  /\ lastCall.arg.script.sections # <<>>
  /\ ~lastCall.ret.result.valid
  /\ lastCall.ret.before.currentStep = "content"
  /\ lastCall.ret.after.currentStep = "content"
  /\ lastCall.ret.after.completedSteps = << "ideation", "outline" >>
  /\ lastCall.ret.after.script = lastCall.arg.script
====
